---------------------------- MODULE Spec2Model ----------------------------
(***************************************************************************)
(* Model of the USAV inventory backend: the identity / SKU subsystem       *)
(* (Backend/app/repositories/product.py, Backend/app/api/routes/           *)
(* identities.py), the relational constraints of Backend/app/models/       *)
(* entities.py, the unit of work of Backend/app/core/database.py and the   *)
(* inventory status operations of Backend/app/repositories/inventory.py.   *)
(*                                                                         *)
(* Conventions.                                                            *)
(*  - A Python Optional value is a sequence of length 0 (None) or 1.       *)
(*  - A Python str that the code builds or takes apart is a sequence of    *)
(*    one-character strings, so that formatting is computed, not assumed.  *)
(*  - Every request runs in its own session (get_db): reads see the        *)
(*    committed rows (PostgreSQL READ COMMITTED), an INSERT is checked     *)
(*    against the declared constraints when it is flushed and waits while  *)
(*    another session holds an uncommitted row with the same unique key.   *)
(***************************************************************************)
EXTENDS Integers, Sequences, FiniteSets, TLC

VARIABLES
    families,       \* committed product_family rows (their product_id)
    identities,     \* committed product_identity rows
    identity_seq,   \* last value handed out by product_identity.id's sequence
    variants,       \* committed product_variant rows
    items,          \* committed inventory_item rows
    item_seq,       \* last value handed out by inventory_item.id's sequence
    variant_seq,    \* last value handed out by product_variant.id's sequence
    components,     \* committed bundle_component rows (the edges of the BOM)
    component_seq,  \* last value handed out by bundle_component.id's sequence
    listings,       \* committed platform_listing rows
    listing_seq,    \* last value handed out by platform_listing.id's sequence
    lci_log,        \* history: the (product_id, lci) pairs committed for Parts since
                    \* the family was created
    pending,        \* per session: identity rows flushed but not yet committed
    pc,             \* per client: where its current request handler stands
    data,           \* per client: the handler's request object and locals
    response,       \* the response sent last: the operation and its HTTP status
    fn_args,        \* arguments of the pure function under evaluation
    fn_result       \* its result

vars == <<families, identities, identity_seq, variants, items, item_seq,
          variant_seq, components, component_seq, listings, listing_seq, lci_log,
          pending, pc, data, response, fn_args, fn_result>>

storeVars == <<families, identities, identity_seq, variants, items, item_seq, pending>>
clientVars == <<pc, data, response>>
fnVars == <<fn_args, fn_result>>
histVars == <<lci_log>>
bomVars == <<variant_seq, components, component_seq>>
listingVars == <<listings, listing_seq>>

---------------------------------------------------------------------------
(* Bounds of the model *)

MaxIdentityId == 2
MaxItemId == 2

\* the sessions that run requests concurrently
Clients == {"c1", "c2"}

---------------------------------------------------------------------------
(* Optional values *)

None == <<>>
Some(x) == <<x>>
IsNone(o) == o = <<>>
Val(o) == o[1]

---------------------------------------------------------------------------
(* HTTP status codes used by the routes *)

HTTP_200_OK == 200
HTTP_201_CREATED == 201
HTTP_204_NO_CONTENT == 204
HTTP_400_BAD_REQUEST == 400
HTTP_404_NOT_FOUND == 404
HTTP_409_CONFLICT == 409
HTTP_422_UNPROCESSABLE_ENTITY == 422
HTTP_500_INTERNAL_SERVER_ERROR == 500

---------------------------------------------------------------------------
(* Enumerations (models/entities.py) *)

IdentityType_BASE == "Base"
IdentityType_B == "B"
IdentityType_P == "P"
IdentityType_K == "K"
IdentityType_S == "S"
IdentityType == {IdentityType_BASE, IdentityType_B, IdentityType_P,
                 IdentityType_K, IdentityType_S}

PhysicalClass == {"E", "C", "P", "S", "W", "A"}

InventoryStatus == {"AVAILABLE", "SOLD", "RESERVED", "RMA", "DAMAGED"}

\* IdentityType.value as a str (a sequence of characters)
TypeValue(t) == IF t = IdentityType_BASE THEN <<"B", "a", "s", "e">> ELSE <<t>>

---------------------------------------------------------------------------
(* String formatting *)

DigitChars == <<"0", "1", "2", "3", "4", "5", "6", "7", "8", "9">>

RECURSIVE DecimalStr(_)
\* str(n) / f"{n}" for n >= 0
DecimalStr(n) ==
    IF n < 10 THEN <<DigitChars[n + 1]>>
    ELSE DecimalStr(n \div 10) \o <<DigitChars[(n % 10) + 1]>>

RECURSIVE ZeroPad(_, _)
\* the "0w" of f"{n:0wd}": left-fill with "0" up to width w, never truncating
ZeroPad(s, w) == IF Len(s) >= w THEN s ELSE ZeroPad(<<"0">> \o s, w)

\* f"{product_id:05d}"
Format05d(n) == ZeroPad(DecimalStr(n), 5)

Format04d(n) == ZeroPad(DecimalStr(n), 4)

\* ProductIdentityRepository.generate_upis_h with the product id padded to 4 digits
generate_upis_h_pad4(product_id, identity_type, lci) ==
    LET product_id_str == Format04d(product_id) IN
    IF identity_type = IdentityType_BASE THEN product_id_str
    ELSE IF identity_type = IdentityType_P /\ ~IsNone(lci)
         THEN product_id_str \o <<"-">> \o TypeValue(identity_type)
                             \o <<"-">> \o DecimalStr(Val(lci))
         ELSE product_id_str \o <<"-">> \o TypeValue(identity_type)

\* ProductIdentityRepository.generate_upis_h
generate_upis_h(product_id, identity_type, lci) ==
    LET product_id_str == Format05d(product_id) IN
    IF identity_type = IdentityType_BASE THEN product_id_str
    ELSE IF identity_type = IdentityType_P /\ ~IsNone(lci)
         THEN product_id_str \o <<"-">> \o TypeValue(identity_type)
                             \o <<"-">> \o DecimalStr(Val(lci))
         ELSE product_id_str \o <<"-">> \o TypeValue(identity_type)

\* ProductIdentityRepository.generate_hex_signature: the first 4 bytes of the
\* SHA-256 of identity_string, in upper-case hex.  The digest is kept as an
\* uninterpreted function of the string it is computed over.
generate_hex_signature(product_id, identity_type, lci) ==
    LET identity_string ==
            Format05d(product_id) \o <<"|">> \o TypeValue(identity_type) \o <<"|">>
            \o (IF IsNone(lci) \/ Val(lci) = 0 THEN <<>> ELSE DecimalStr(Val(lci)))
    IN [sha256_first4_hex_upper |-> identity_string]


---------------------------------------------------------------------------
(* Pure functions, evaluated on enumerated arguments *)

\* product ids of the families the functions are evaluated for (0..99999)
FnProductIds == {0, 7, 845, 10000, 12345, 99999}
FnLcis == {None, Some(1), Some(9), Some(10), Some(99)}

NoArgs == [fn |-> "none"]

InitFn == fn_args = NoArgs /\ fn_result = None

EvalGenerateUpisH ==
    \E product_id \in FnProductIds, identity_type \in IdentityType, lci \in FnLcis :
        /\ fn_args' = [fn |-> "generate_upis_h", product_id |-> product_id,
                       identity_type |-> identity_type, lci |-> lci]
        /\ fn_result' = Some(generate_upis_h(product_id, identity_type, lci))
        /\ UNCHANGED <<storeVars, clientVars, bomVars, listingVars, histVars>>

---------------------------------------------------------------------------
(* The relational store: product_identity's declared constraints *)

\* ck_identity_lci_range left out of the table
ck_identity_lci_range_absent(row) == TRUE

\* CheckConstraint "(lci IS NULL) OR (lci >= 1 AND lci <= 99)"
ck_identity_lci_range(row) ==
    IsNone(row.lci) \/ (Val(row.lci) >= 1 /\ Val(row.lci) <= 99)

\* CheckConstraint "(type = 'P' AND lci IS NOT NULL) OR (type != 'P' AND lci IS NULL)"
ck_identity_lci_type_constraint(row) ==
    \/ (row.type = "P" /\ ~IsNone(row.lci))
    \/ (row.type # "P" /\ IsNone(row.lci))

\* generated_upis_h: unique=True
uq_generated_upis_h(row, other) == row.generated_upis_h = other.generated_upis_h

\* UniqueConstraint("product_id", "type", "lci"); rows with a NULL lci never collide
uq_identity_product_type_lci(row, other) ==
    /\ ~IsNone(row.lci) /\ ~IsNone(other.lci)
    /\ row.product_id = other.product_id
    /\ row.type = other.type
    /\ row.lci = other.lci

\* the two rows collide on a unique index of product_identity
UniqueCollision(row, other) ==
    uq_generated_upis_h(row, other) \/ uq_identity_product_type_lci(row, other)

\* ForeignKey("product_family.product_id")
fk_identity_family(row) == row.product_id \in families

\* rows other sessions have flushed and not yet committed
PendingOfOthers(c) == UNION {pending[d] : d \in Clients \ {c}}

\* the INSERT of row by session c waits for another session's transaction to end
InsertWaits(c, row) ==
    /\ ck_identity_lci_range(row)
    /\ ck_identity_lci_type_constraint(row)
    /\ \E other \in PendingOfOthers(c) : UniqueCollision(row, other)

\* the INSERT of row raises IntegrityError
InsertFails(row) ==
    \/ ~ck_identity_lci_range(row)
    \/ ~ck_identity_lci_type_constraint(row)
    \/ \E other \in identities : UniqueCollision(row, other)
    \/ ~fk_identity_family(row)

\* the UPDATE that turns row into written raises IntegrityError
UpdateFails(row, written) ==
    \/ ~ck_identity_lci_range(written)
    \/ ~ck_identity_lci_type_constraint(written)
    \/ \E other \in identities \ {row} : UniqueCollision(written, other)

---------------------------------------------------------------------------
(* Request handlers: common parts *)

Idle(c) == pc[c] = "idle"

NoData == [op |-> "none"]

NoResponse == [op |-> "none", status |-> 0]

\* the handler of client c returns or raises: get_db commits or rolls back, the
\* response goes out with the given status and the request's objects are gone
Finish(c, status, d) ==
    /\ pc' = [pc EXCEPT ![c] = "idle"]
    /\ response' = [op |-> d.op, status |-> status]
    /\ data' = [data EXCEPT ![c] = NoData]

\* the handler goes on to its next statement
Goto(c, label, d) ==
    /\ pc' = [pc EXCEPT ![c] = label]
    /\ data' = [data EXCEPT ![c] = d]
    /\ UNCHANGED response

\* get_db, "except Exception: await session.rollback()": what the session has
\* flushed is discarded
Rollback(c) == pending' = [pending EXCEPT ![c] = {}]

---------------------------------------------------------------------------
(* Families (api/routes/families.py) *)

ProductIdInputs == {845}

\* POST /families
create_family ==
    \E product_id \in ProductIdInputs :
        /\ product_id \notin families
        /\ product_id >= 0 /\ product_id <= 99999
        /\ families' = families \cup {product_id}
        /\ UNCHANGED <<identities, identity_seq, variants, items, item_seq, pending,
                       clientVars, fnVars, histVars, bomVars, listingVars>>

\* ProductIdentity.bundle_children: the edges that have the identity as parent
\* (cascade="all, delete-orphan": deleted with it)
bundle_children(identity_id) == {e \in components : e.parent_identity_id = identity_id}

\* ProductIdentity.bundle_parents: the edges that have the identity as child.
\* The relationship has no delete cascade: when the identity is deleted, the
\* unit of work sets child_identity_id of these edges to NULL.
bundle_parents(identity_id) == {e \in components : e.child_identity_id = identity_id}

\* the flush of a delete raises: an edge that is not deleted in the same flush
\* gets the UPDATE child_identity_id = NULL, which the NOT NULL column refuses
NullifiedEdges(gone_ids) ==
    {e \in components : /\ e.child_identity_id \in gone_ids
                        /\ e.parent_identity_id \notin gone_ids}

\* DELETE /families/{product_id}: the family goes, and with it (cascade) its
\* identities, their variants, those variants' inventory items and platform
\* listings, and the bundle edges the identities are part of.  The DELETE
\* waits while another session holds an uncommitted identity of the family.
\* When an identity of the family is the child of an edge whose parent belongs
\* to another family the flush raises and the request changes nothing.
delete_family ==
    \E product_id \in families :
        /\ \A c \in Clients : \A row \in pending[c] : row.product_id # product_id
        /\ NullifiedEdges({i.id : i \in {j \in identities : j.product_id = product_id}}) = {}
        /\ families' = families \ {product_id}
        /\ LET gone_i == {i \in identities : i.product_id = product_id}
               gone_v == {v \in variants : \E i \in gone_i : v.identity_id = i.id}
           IN /\ identities' = identities \ gone_i
              /\ variants' = variants \ gone_v
              /\ items' = {it \in items : \A v \in gone_v : it.variant_id # v.id}
              /\ listings' = {l \in listings : \A v \in gone_v : l.variant_id # v.id}
              /\ components' = {e \in components : \A i \in gone_i :
                                    /\ e.parent_identity_id # i.id
                                    /\ e.child_identity_id # i.id}
        /\ lci_log' = {e \in lci_log : e[1] # product_id}
        /\ UNCHANGED <<identity_seq, item_seq, variant_seq, component_seq, listing_seq,
                       pending, clientVars, fnVars>>

---------------------------------------------------------------------------
(* Identities: POST /identities (api/routes/identities.py, create_identity) *)

TypeInputs == IdentityType
LciInputs == {None, Some(1), Some(99), Some(100)}
PhysicalClassInputs == {None}

\* ProductIdentityBase.lci: Field(None, ge=1, le=99)
LciFieldValid(lci) == IsNone(lci) \/ (Val(lci) >= 1 /\ Val(lci) <= 99)

\* the lci values among the committed Part identities of a family
PartLcis(product_id) ==
    {Val(i.lci) : i \in {j \in identities : j.product_id = product_id /\ j.type = "P"}}

Max(S) == CHOOSE m \in S : \A x \in S : x <= m

\* get_next_lci counting the parts instead of taking their maximum
get_next_lci_count(product_id) == Cardinality(PartLcis(product_id)) + 1

\* ProductIdentityRepository.get_next_lci: coalesce(max(lci), 0) + 1
get_next_lci(product_id) ==
    (IF PartLcis(product_id) = {} THEN 0 ELSE Max(PartLcis(product_id))) + 1

\* the route's validation without its rejection of an lci on a non-Part
validate_lci_unchecked(type, lci) ==
    IF type = IdentityType_P
    THEN (IF IsNone(lci) THEN "assign" ELSE "keep")
    ELSE "keep"

\* create_identity, "Validate LCI based on type"
validate_lci(type, lci) ==
    IF type = IdentityType_P
    THEN (IF IsNone(lci) THEN "assign" ELSE "keep")
    ELSE (IF ~IsNone(lci) THEN "reject" ELSE "keep")

\* the duplicate check left out
upis_h_exists_never(upis_h) == FALSE

\* ProductIdentityRepository.get_by_upis_h(upis_h) is not None
upis_h_exists(upis_h) == \E i \in identities : i.generated_upis_h = upis_h

\* create_identity deriving the UPIS-H before the lci is known
create_identity_row_no_lci(d, id) ==
    [id |-> id, product_id |-> d.product_id, type |-> d.type, lci |-> d.lci,
     physical_class |-> d.physical_class,
     generated_upis_h |-> generate_upis_h(d.product_id, d.type, None),
     hex_signature |-> generate_hex_signature(d.product_id, d.type, None)]

\* ProductIdentityRepository.create_identity: the row that is added to the session
create_identity_row(d, id) ==
    [id |-> id, product_id |-> d.product_id, type |-> d.type, lci |-> d.lci,
     physical_class |-> d.physical_class,
     generated_upis_h |-> generate_upis_h(d.product_id, d.type, d.lci),
     hex_signature |-> generate_hex_signature(d.product_id, d.type, d.lci)]

\* a lookup of the family that finds one whatever the table holds
FamilyById_any(product_id) == {product_id}

\* family_repo.get(data.product_id)
FamilyById(product_id) == {f \in families : f = product_id}

\* create requests that may still draw an id from the sequence
CreatesInFlight ==
    Cardinality({c \in Clients : pc[c] \in {"ci_next_lci", "ci_check", "ci_insert"}})

\* request arrives; body validated; family looked up; lci validated against type
ci_begin(c) ==
    /\ Idle(c)
    /\ identity_seq + CreatesInFlight < MaxIdentityId
    /\ \E product_id \in ProductIdInputs, type \in TypeInputs,
          lci \in LciInputs, physical_class \in PhysicalClassInputs :
        LET d == [op |-> "create_identity", product_id |-> product_id, type |-> type,
                  lci |-> lci, physical_class |-> physical_class]
        IN IF ~LciFieldValid(lci)
                THEN Finish(c, HTTP_422_UNPROCESSABLE_ENTITY, d)
           ELSE IF FamilyById(product_id) = {}
                THEN Finish(c, HTTP_404_NOT_FOUND, d)
           ELSE IF validate_lci(type, lci) = "reject"
                THEN Finish(c, HTTP_400_BAD_REQUEST, d)
           ELSE IF validate_lci(type, lci) = "assign"
                THEN Goto(c, "ci_next_lci", d)
           ELSE Goto(c, "ci_check", d)
    /\ UNCHANGED <<storeVars, fnVars, histVars, bomVars, listingVars>>

\* data.lci = await identity_repo.get_next_lci(data.product_id)
ci_next_lci(c) ==
    /\ pc[c] = "ci_next_lci"
    /\ Goto(c, "ci_check",
            [data[c] EXCEPT !.lci = Some(get_next_lci(data[c].product_id))])
    /\ UNCHANGED <<storeVars, fnVars, histVars, bomVars, listingVars>>

\* "Check for duplicate UPIS-H"
ci_check(c) ==
    /\ pc[c] = "ci_check"
    /\ LET upis_h == generate_upis_h(data[c].product_id, data[c].type, data[c].lci)
       IN IF upis_h_exists(upis_h)
          THEN Finish(c, HTTP_409_CONFLICT, data[c])
          ELSE Goto(c, "ci_insert", data[c])
    /\ UNCHANGED <<storeVars, fnVars, histVars, bomVars, listingVars>>

\* identity_repo.create_identity(data.model_dump()): the INSERT is flushed.  An
\* IntegrityError is no HTTPException: get_db rolls back and re-raises, and
\* main.global_exception_handler answers 500.
ci_insert(c) ==
    /\ pc[c] = "ci_insert"
    /\ LET row == create_identity_row(data[c], identity_seq + 1)
       IN /\ ~(~InsertFails(row) /\ InsertWaits(c, row))
          /\ identity_seq' = identity_seq + 1
          /\ IF InsertFails(row)
             THEN /\ Rollback(c)
                  /\ Finish(c, HTTP_500_INTERNAL_SERVER_ERROR, data[c])
             ELSE /\ pending' = [pending EXCEPT ![c] = {row}]
                  /\ Goto(c, "ci_commit", data[c])
    /\ UNCHANGED <<families, identities, variants, items, item_seq, fnVars, histVars,
                   bomVars, listingVars>>

\* the handler returns; get_db: await session.commit()
ci_commit(c) ==
    /\ pc[c] = "ci_commit"
    /\ identities' = identities \cup pending[c]
    /\ pending' = [pending EXCEPT ![c] = {}]
    /\ lci_log' = lci_log \cup {<<row.product_id, Val(row.lci)>> :
                                  row \in {r \in pending[c] : r.type = "P"}}
    /\ Finish(c, HTTP_201_CREATED, data[c])
    /\ UNCHANGED <<families, identity_seq, variants, items, item_seq, fnVars, bomVars,
                   listingVars>>

create_identity(c) ==
    \/ ci_begin(c)
    \/ ci_next_lci(c)
    \/ ci_check(c)
    \/ ci_insert(c)
    \/ ci_commit(c)

---------------------------------------------------------------------------
(* Identities: PATCH and DELETE /identities/{identity_id} *)

IdentityIdInputs == 1..MaxIdentityId

\* A PATCH body: field/value pairs as sent (value None: JSON null)
UpdateBodyInputs ==
    { {},
      {<<"physical_class", Some("C")>>},
      {<<"physical_class", None>>},
      {<<"physical_class", Some("C")>>, <<"lci", Some(5)>>, <<"type", Some("B")>>} }

\* the update schema also declaring lci
ProductIdentityUpdate_with_lci == {"physical_class", "lci"}

\* the fields ProductIdentityUpdate declares; pydantic ignores any other key
ProductIdentityUpdate == {"physical_class"}

\* columns of product_identity that hold an Optional
IdentityNullable == {"lci", "physical_class"}

\* the nullable columns of product_variant that an update may set
VariantNullable == {"color_code", "condition_code"}

\* the nullable columns of platform_listing that an update may set
ListingNullable == {"external_ref_id", "listing_price", "last_synced_at",
                    "sync_error_message"}

\* data.model_dump(exclude_unset=True)
model_dump_update(body) == {kv \in body : kv[1] \in ProductIdentityUpdate}

RECURSIVE update_obj(_, _)
\* BaseRepository.update: setattr for every field whose value is not None
update_obj(db_obj, obj_in) ==
    IF obj_in = {} THEN db_obj
    ELSE LET kv == CHOOSE x \in obj_in : TRUE
             rest == update_obj(db_obj, obj_in \ {kv})
         IN IF ~IsNone(kv[2]) /\ kv[1] \in DOMAIN db_obj
            THEN [rest EXCEPT ![kv[1]] =
                     IF kv[1] \in IdentityNullable \cup VariantNullable \cup ListingNullable
                     THEN kv[2] ELSE Val(kv[2])]
            ELSE rest

IdentityById(id) == {i \in identities : i.id = id}

\* the attributes of the loaded object that the update may set
Loaded(db_obj, obj_in) ==
    [f \in {kv[1] : kv \in obj_in} \cap DOMAIN db_obj |-> db_obj[f]]

\* the flushed UPDATE: the columns whose new value differs from the loaded one
WriteChanged(row, old, new) ==
    [f \in DOMAIN row |->
        IF f \in DOMAIN old /\ new[f] # old[f] THEN new[f] ELSE row[f]]

\* repo.get(identity_id); 404 when absent; 200 at once when nothing is to update
ui_begin(c) ==
    /\ Idle(c)
    /\ \E identity_id \in IdentityIdInputs, body \in UpdateBodyInputs :
        LET d == [op |-> "update_identity", identity_id |-> identity_id]
        IN IF IdentityById(identity_id) = {}
           THEN Finish(c, HTTP_404_NOT_FOUND, d)
           ELSE LET db_obj == CHOOSE i \in IdentityById(identity_id) : TRUE
                    update_data == model_dump_update(body)
                IN IF update_data = {}
                   THEN Finish(c, HTTP_200_OK, d)
                   ELSE Goto(c, "ui_flush",
                             [op |-> "update_identity", identity_id |-> identity_id,
                              db_obj |-> Loaded(db_obj, update_data),
                              update_data |-> update_data])
    /\ UNCHANGED <<storeVars, fnVars, histVars, bomVars, listingVars>>

\* repo.update(identity, update_data): setattr, flush (an UPDATE of the changed
\* columns by primary key), refresh; then get_db commits.  A row deleted in the
\* meantime makes the flush (StaleDataError) or the refresh raise.
ui_flush(c) ==
    /\ pc[c] = "ui_flush"
    /\ LET old == data[c].db_obj
           new == update_obj(old, data[c].update_data)
           d == [op |-> "update_identity", identity_id |-> data[c].identity_id]
       IN IF IdentityById(data[c].identity_id) = {}
          THEN /\ Finish(c, HTTP_500_INTERNAL_SERVER_ERROR, d)
               /\ UNCHANGED identities
          ELSE LET row == CHOOSE i \in IdentityById(data[c].identity_id) : TRUE
                   written == WriteChanged(row, old, new)
               IN IF UpdateFails(row, written)
                  THEN /\ Finish(c, HTTP_500_INTERNAL_SERVER_ERROR, d)
                       /\ UNCHANGED identities
                  ELSE /\ identities' = (identities \ {row}) \cup {written}
                       /\ Finish(c, HTTP_200_OK, d)
    /\ UNCHANGED <<families, identity_seq, variants, items, item_seq, pending, fnVars,
                   histVars, bomVars, listingVars>>

update_identity(c) == ui_begin(c) \/ ui_flush(c)

\* repo.delete(identity_id): get; 404 when absent.  The get loads the object
\* with its collections (lazy="selectin"), bundle_parents among them.
di_begin(c) ==
    /\ Idle(c)
    /\ \E identity_id \in IdentityIdInputs :
        LET d == [op |-> "delete_identity", identity_id |-> identity_id]
        IN IF IdentityById(identity_id) = {}
           THEN Finish(c, HTTP_404_NOT_FOUND, d)
           ELSE Goto(c, "di_flush",
                     [op |-> "delete_identity", identity_id |-> identity_id,
                      bundle_parents |-> bundle_parents(identity_id)])
    /\ UNCHANGED <<storeVars, fnVars, histVars, bomVars, listingVars>>

\* session.delete(obj), flush, commit.  The flush first sets child_identity_id
\* of the loaded bundle_parents to NULL: the UPDATE violates NOT NULL (or finds
\* no row), the request ends in 500 and nothing changes.  Otherwise the row
\* goes, and with it (cascade) its variants, their inventory items and platform
\* listings, and the bundle edges it is part of.
di_flush(c) ==
    /\ pc[c] = "di_flush"
    /\ LET d == [op |-> "delete_identity", identity_id |-> data[c].identity_id]
           gone_v == {v \in variants : v.identity_id = data[c].identity_id}
       IN IF data[c].bundle_parents # {}
          THEN /\ Finish(c, HTTP_500_INTERNAL_SERVER_ERROR, d)
               /\ UNCHANGED <<identities, variants, items, listings, components>>
          ELSE /\ identities' = {i \in identities : i.id # data[c].identity_id}
               /\ variants' = variants \ gone_v
               /\ items' = {it \in items : \A v \in gone_v : it.variant_id # v.id}
               /\ listings' = {l \in listings : \A v \in gone_v : l.variant_id # v.id}
               /\ components' = {e \in components :
                                     /\ e.parent_identity_id # data[c].identity_id
                                     /\ e.child_identity_id # data[c].identity_id}
               /\ Finish(c, HTTP_204_NO_CONTENT, d)
    /\ UNCHANGED <<families, identity_seq, item_seq, variant_seq, component_seq, listing_seq,
                   pending, fnVars, histVars>>

delete_identity(c) == di_begin(c) \/ di_flush(c)

---------------------------------------------------------------------------
(* The identity subsystem: an empty database and concurrent clients *)

InitClients ==
    /\ pc = [c \in Clients |-> "idle"]
    /\ data = [c \in Clients |-> NoData]
    /\ response = NoResponse
    /\ pending = [c \in Clients |-> {}]

Init ==
    /\ families = {}
    /\ identities = {}
    /\ identity_seq = 0
    /\ variants = {}
    /\ items = {}
    /\ item_seq = 0
    /\ variant_seq = 0
    /\ components = {}
    /\ component_seq = 0
    /\ listings = {}
    /\ listing_seq = 0
    /\ lci_log = {}
    /\ InitClients
    /\ InitFn

Next ==
    \/ create_family
    \/ delete_family
    \/ \E c \in Clients : create_identity(c)
    \/ \E c \in Clients : update_identity(c)
    \/ \E c \in Clients : delete_identity(c)

Spec == Init /\ [][Next]_vars

---------------------------------------------------------------------------
(* Variants: POST /variants, PATCH and DELETE /variants/{variant_id},        *)
(* POST /variants/{variant_id}/deactivate (api/routes/variants.py,           *)
(* ProductVariantRepository in repositories/product.py)                      *)

MaxVariantId == 2

LowerChars == <<"a", "b", "c", "d", "e", "f", "g", "h", "i", "j", "k", "l", "m",
                "n", "o", "p", "q", "r", "s", "t", "u", "v", "w", "x", "y", "z">>
UpperChars == <<"A", "B", "C", "D", "E", "F", "G", "H", "I", "J", "K", "L", "M",
                "N", "O", "P", "Q", "R", "S", "T", "U", "V", "W", "X", "Y", "Z">>

\* str.upper() on one character
UpperChar(ch) ==
    IF \E i \in 1..Len(LowerChars) : LowerChars[i] = ch
    THEN UpperChars[CHOOSE i \in 1..Len(LowerChars) : LowerChars[i] = ch]
    ELSE ch

\* str.upper()
upper(s) == [i \in 1..Len(s) |-> UpperChar(s[i])]

RECURSIVE join(_, _)
\* sep.join(parts)
join(sep, parts) ==
    IF parts = <<>> THEN <<>>
    ELSE IF Len(parts) = 1 THEN parts[1]
    ELSE parts[1] \o sep \o join(sep, Tail(parts))

\* "if x:" on an Optional[str]: None and "" are both false
Truthy(o) == ~IsNone(o) /\ Val(o) # <<>>

ConditionCode == {"N", "R"}

\* ConditionCode.value
ConditionValue(c) == <<c>>

\* ProductVariantRepository.generate_full_sku without the color_code.upper()
generate_full_sku_as_given(upis_h, color_code, condition_code) ==
    LET parts0 == <<upis_h>>
        parts1 == IF Truthy(color_code) THEN Append(parts0, Val(color_code)) ELSE parts0
        parts2 == IF Truthy(condition_code) THEN Append(parts1, Val(condition_code))
                  ELSE parts1
    IN join(<<"-">>, parts2)

\* ProductVariantRepository.generate_full_sku
generate_full_sku(upis_h, color_code, condition_code) ==
    LET parts0 == <<upis_h>>
        parts1 == IF Truthy(color_code) THEN Append(parts0, upper(Val(color_code)))
                  ELSE parts0
        parts2 == IF Truthy(condition_code) THEN Append(parts1, Val(condition_code))
                  ELSE parts1
    IN join(<<"-">>, parts2)

\* create_variant, "Handle enum value": condition_str
condition_str(condition_code) ==
    IF IsNone(condition_code) THEN None ELSE Some(ConditionValue(Val(condition_code)))

\* ProductVariantRepository.create_variant: the row that data.model_dump() and the
\* generated full_sku make, with the id the sequence hands out
create_variant_row(d, upis_h, id) ==
    [id |-> id, identity_id |-> d.identity_id, color_code |-> d.color_code,
     condition_code |-> d.condition_code,
     full_sku |-> generate_full_sku(upis_h, d.color_code, condition_str(d.condition_code)),
     is_active |-> d.is_active]

\* product_variant.full_sku, unique=True
uq_variant_full_sku(row, other) == row.full_sku = other.full_sku

\* UNIQUE (identity_id, color_code, condition_code): two rows collide only when
\* all three columns are equal and none is NULL (NULLs are distinct in a unique
\* constraint)
uq_variant_identity_color_condition(row, other) ==
    /\ row.identity_id = other.identity_id
    /\ ~IsNone(row.color_code) /\ row.color_code = other.color_code
    /\ ~IsNone(row.condition_code) /\ row.condition_code = other.condition_code

VariantCollision(row, other) ==
    \/ uq_variant_full_sku(row, other)
    \/ uq_variant_identity_color_condition(row, other)

\* product_variant.identity_id REFERENCES product_identity (id)
fk_variant_identity(row) == \E i \in identities : i.id = row.identity_id

\* the flushed INSERT raises IntegrityError
VariantInsertFails(row) ==
    \/ ~fk_variant_identity(row)
    \/ \E other \in variants : VariantCollision(row, other)

\* the flushed UPDATE of row to written raises IntegrityError
VariantUpdateFails(row, written) ==
    \E other \in variants \ {row} : VariantCollision(written, other)

\* get_by_identity's "limit: int = 100"
get_by_identity_limit == 100

RECURSIVE SubsetsOfSize(_, _)
\* the subsets of S that have k elements (k <= Cardinality(S))
SubsetsOfSize(S, k) ==
    IF k = 0 THEN {{}}
    ELSE UNION {{T \cup {x} : x \in S \ T} : T \in SubsetsOfSize(S, k - 1)}

\* the variants that match get_by_identity's WHERE clause
MatchingVariants(identity_id, include_inactive) ==
    {v \in variants : /\ v.identity_id = identity_id
                      /\ (include_inactive \/ v.is_active)}

\* The SELECT has no ORDER BY, so when more rows match than the limit lets
\* through, which of them are left out is not determined: the sets of ids that
\* offset(0).limit(100) may leave out
LeftOut(identity_id, include_inactive) ==
    LET ids == {v.id : v \in MatchingVariants(identity_id, include_inactive)}
    IN IF Cardinality(ids) <= get_by_identity_limit THEN {{}}
       ELSE SubsetsOfSize(ids, Cardinality(ids) - get_by_identity_limit)

\* ProductVariantRepository.get_by_identity(identity_id, include_inactive): the
\* result when the rows with the ids in out are the ones left out
get_by_identity(identity_id, include_inactive, out) ==
    {v \in MatchingVariants(identity_id, include_inactive) : v.id \notin out}

VariantById(id) == {v \in variants : v.id = id}

\* the request bodies of POST /variants
VariantIdentityInputs == {1, 2}
Color_wy == <<"w", "y">>
Color_BK == <<"B", "K">>
Color_WY == <<"W", "Y">>
ColorInputs == {None, Some(Color_wy), Some(Color_BK), Some(Color_WY)}
ConditionInputs == {None, Some("N")}

\* ProductVariantBase.color_code: Optional[str], max_length=2
ColorFieldValid(color_code) == IsNone(color_code) \/ Len(Val(color_code)) <= 2

\* the model lets the id sequence run MaxVariantId past where a specification
\* starts it: at 0, or after the rows of a full page and one more
VariantSeqStarts == {0, get_by_identity_limit + 1}
VariantSeqHasRoom ==
    \E s0 \in VariantSeqStarts : s0 <= variant_seq /\ variant_seq < s0 + MaxVariantId

\* request arrives; body validated; identity_repo.get(data.identity_id)
cv_begin(c) ==
    /\ Idle(c)
    /\ VariantSeqHasRoom
    /\ \E identity_id \in VariantIdentityInputs, color_code \in ColorInputs,
          condition_code \in ConditionInputs :
        LET d == [op |-> "create_variant", identity_id |-> identity_id,
                  color_code |-> color_code, condition_code |-> condition_code,
                  is_active |-> TRUE]
        IN IF ~ColorFieldValid(color_code)
                THEN Finish(c, HTTP_422_UNPROCESSABLE_ENTITY, d)
           ELSE IF IdentityById(identity_id) = {}
                THEN Finish(c, HTTP_404_NOT_FOUND, d)
           ELSE Goto(c, "cv_check", d)
    /\ UNCHANGED <<storeVars, fnVars, histVars, bomVars, listingVars>>

\* "Check for duplicate variant": the loop over get_by_identity(.., include_inactive=True)
DuplicateVariantIn(existing_variants, d) ==
    \E v \in existing_variants :
        v.color_code = d.color_code /\ v.condition_code = d.condition_code

cv_check(c) ==
    /\ pc[c] = "cv_check"
    /\ \E found \in {DuplicateVariantIn(get_by_identity(data[c].identity_id, TRUE, out),
                                         data[c]) :
                        out \in LeftOut(data[c].identity_id, TRUE)} :
        IF found
        THEN Finish(c, HTTP_409_CONFLICT, data[c])
        ELSE Goto(c, "cv_insert", data[c])
    /\ UNCHANGED <<storeVars, fnVars, histVars, bomVars, listingVars>>

\* variant_repo.create_variant(data.model_dump(), identity): the INSERT is flushed
\* and, the handler having nothing left to do, committed.  The flush waits for a
\* session that holds an uncommitted row with the same unique key, so flush and
\* commit are taken as one step on the committed rows.  An IntegrityError is no
\* HTTPException: get_db rolls back and main.global_exception_handler answers 500.
cv_insert(c) ==
    /\ pc[c] = "cv_insert"
    /\ LET identity == CHOOSE i \in identities : i.id = data[c].identity_id
           row == create_variant_row(data[c], identity.generated_upis_h, variant_seq + 1)
       IN /\ variant_seq' = variant_seq + 1
          /\ IF VariantInsertFails(row)
             THEN /\ Finish(c, HTTP_500_INTERNAL_SERVER_ERROR, data[c])
                  /\ UNCHANGED variants
             ELSE /\ variants' = variants \cup {row}
                  /\ Finish(c, HTTP_201_CREATED, data[c])
    /\ UNCHANGED <<families, identities, identity_seq, items, item_seq, pending,
                   components, component_seq, listingVars, fnVars, histVars>>

create_variant(c) == cv_begin(c) \/ cv_check(c) \/ cv_insert(c)

\* the request bodies of PATCH /variants/{variant_id}: the fields that are set,
\* each with its value (None is an explicit null)
VariantIdInputs == 1..MaxVariantId
VariantUpdateBodyInputs ==
    { {<<"color_code", Some(Color_BK)>>},
      {<<"condition_code", Some("N")>>},
      {<<"is_active", Some(FALSE)>>},
      {<<"full_sku", Some(Color_BK)>>} }

\* ProductVariantUpdate with a full_sku field
ProductVariantUpdate_with_full_sku == {"color_code", "condition_code", "is_active", "full_sku"}

\* ProductVariantUpdate: the fields of the schema; others in the body are ignored
ProductVariantUpdate == {"color_code", "condition_code", "is_active"}

\* data.model_dump(exclude_unset=True)
model_dump_variant_update(body) == {kv \in body : kv[1] \in ProductVariantUpdate}

\* repo.get(variant_id); 404 when absent; the loaded object is returned as it is
\* when the body sets nothing
uv_begin(c) ==
    /\ Idle(c)
    /\ \E variant_id \in VariantIdInputs, body \in VariantUpdateBodyInputs :
        LET d == [op |-> "update_variant", variant_id |-> variant_id]
        IN IF VariantById(variant_id) = {}
           THEN Finish(c, HTTP_404_NOT_FOUND, d)
           ELSE LET db_obj == CHOOSE v \in VariantById(variant_id) : TRUE
                    update_data == model_dump_variant_update(body)
                IN IF update_data = {}
                   THEN Finish(c, HTTP_200_OK, d)
                   ELSE Goto(c, "uv_flush",
                             [op |-> "update_variant", variant_id |-> variant_id,
                              db_obj |-> Loaded(db_obj, update_data),
                              update_data |-> update_data])
    /\ UNCHANGED <<storeVars, fnVars, histVars, bomVars, listingVars>>

\* POST /variants/{variant_id}/deactivate: repo.get(variant_id); 404 when absent
dv_begin(c) ==
    /\ Idle(c)
    /\ \E variant_id \in VariantIdInputs :
        LET d == [op |-> "deactivate_variant", variant_id |-> variant_id]
        IN IF VariantById(variant_id) = {}
           THEN Finish(c, HTTP_404_NOT_FOUND, d)
           ELSE LET db_obj == CHOOSE v \in VariantById(variant_id) : TRUE
                    update_data == {<<"is_active", Some(FALSE)>>}
                IN Goto(c, "uv_flush",
                        [op |-> "deactivate_variant", variant_id |-> variant_id,
                         db_obj |-> Loaded(db_obj, update_data),
                         update_data |-> update_data])
    /\ UNCHANGED <<storeVars, fnVars, histVars, bomVars, listingVars>>

\* repo.update(variant, update_data): setattr, flush (an UPDATE of the changed
\* columns by primary key), refresh; then get_db commits.  A row deleted in the
\* meantime makes the flush (StaleDataError) or the refresh raise.
uv_flush(c) ==
    /\ pc[c] = "uv_flush"
    /\ LET old == data[c].db_obj
           new == update_obj(old, data[c].update_data)
           d == [op |-> data[c].op, variant_id |-> data[c].variant_id]
       IN IF VariantById(data[c].variant_id) = {}
          THEN /\ Finish(c, HTTP_500_INTERNAL_SERVER_ERROR, d)
               /\ UNCHANGED variants
          ELSE LET row == CHOOSE v \in VariantById(data[c].variant_id) : TRUE
                   written == WriteChanged(row, old, new)
               IN IF VariantUpdateFails(row, written)
                  THEN /\ Finish(c, HTTP_500_INTERNAL_SERVER_ERROR, d)
                       /\ UNCHANGED variants
                  ELSE /\ variants' = (variants \ {row}) \cup {written}
                       /\ Finish(c, HTTP_200_OK, d)
    /\ UNCHANGED <<families, identities, identity_seq, items, item_seq, pending,
                   bomVars, listingVars, fnVars, histVars>>

update_variant(c) == uv_begin(c) \/ uv_flush(c)

deactivate_variant(c) == dv_begin(c) \/ uv_flush(c)

\* DELETE /variants/{variant_id}: repo.delete: get, session.delete, flush; 404
\* when absent.  The variant's inventory items and platform listings go with it
\* (cascade).
delete_variant(c) ==
    /\ Idle(c)
    /\ \E variant_id \in VariantIdInputs :
        LET d == [op |-> "delete_variant", variant_id |-> variant_id]
        IN IF VariantById(variant_id) = {}
           THEN /\ Finish(c, HTTP_404_NOT_FOUND, d)
                /\ UNCHANGED <<variants, items, listings>>
           ELSE /\ variants' = variants \ VariantById(variant_id)
                /\ items' = {it \in items : it.variant_id # variant_id}
                /\ listings' = {l \in listings : l.variant_id # variant_id}
                /\ Finish(c, HTTP_204_NO_CONTENT, d)
    /\ UNCHANGED <<families, identities, identity_seq, item_seq, pending, bomVars,
                   listing_seq, fnVars, histVars>>

\* A database that holds family 845 with its Base identity, and no variant yet
InitVariant ==
    /\ families = {845}
    /\ identities = {create_identity_row([product_id |-> 845, type |-> IdentityType_BASE,
                                          lci |-> None, physical_class |-> None], 1)}
    /\ identity_seq = 1
    /\ variants = {}
    /\ variant_seq = 0
    /\ items = {}
    /\ item_seq = 0
    /\ components = {}
    /\ component_seq = 0
    /\ listings = {}
    /\ listing_seq = 0
    /\ lci_log = {}
    /\ InitClients
    /\ InitFn

\* the variant requests are issued by one session, one request after the other;
\* the handlers keep their steps
VariantClients == {"c1"}

NextVariant ==
    \/ \E c \in VariantClients : create_variant(c)
    \/ \E c \in VariantClients : update_variant(c)
    \/ \E c \in VariantClients : deactivate_variant(c)
    \/ \E c \in VariantClients : delete_variant(c)

SpecVariant == InitVariant /\ [][NextVariant]_vars

\* The request body that made the k-th variant of a well-stocked identity: the
\* colors "00" .. "99" for the first hundred, then "wy"; no condition
StockedBody(k) ==
    [identity_id |-> 1,
     color_code |-> IF k <= get_by_identity_limit
                    THEN Some(ZeroPad(DecimalStr(k - 1), 2)) ELSE Some(Color_wy),
     condition_code |-> None, is_active |-> TRUE]

\* A database whose Base identity of family 845 has one variant more than
\* get_by_identity returns in one page, each as create_variant stored it
InitVariantStocked ==
    /\ families = {845}
    /\ identities = {create_identity_row([product_id |-> 845, type |-> IdentityType_BASE,
                                          lci |-> None, physical_class |-> None], 1)}
    /\ identity_seq = 1
    /\ variants = {create_variant_row(StockedBody(k),
                                      generate_upis_h(845, IdentityType_BASE, None), k)
                     : k \in 1..(get_by_identity_limit + 1)}
    /\ variant_seq = get_by_identity_limit + 1
    /\ items = {}
    /\ item_seq = 0
    /\ components = {}
    /\ component_seq = 0
    /\ listings = {}
    /\ listing_seq = 0
    /\ lci_log = {}
    /\ InitClients
    /\ InitFn

NextVariantStocked == \E c \in VariantClients : create_variant(c)

SpecVariantStocked == InitVariantStocked /\ [][NextVariantStocked]_vars

---------------------------------------------------------------------------
(* Bundle components: POST /bundles, PATCH and DELETE /bundles/{component_id} *)
(* (api/routes/bundles.py, BundleComponentRepository)                        *)

MaxComponentId == 2

BundleRole == {"Primary", "Accessory", "Satellite"}

\* ck_bundle_no_self_reference
ck_bundle_no_self_reference(row) == row.parent_identity_id # row.child_identity_id

\* ck_bundle_positive_quantity
ck_bundle_positive_quantity(row) == row.quantity_required > 0

\* uq_bundle_parent_child
uq_bundle_parent_child(row, other) ==
    /\ row.parent_identity_id = other.parent_identity_id
    /\ row.child_identity_id = other.child_identity_id

\* bundle_component.parent_identity_id and child_identity_id REFERENCES
\* product_identity (id)
fk_bundle_identities(row) ==
    /\ \E i \in identities : i.id = row.parent_identity_id
    /\ \E i \in identities : i.id = row.child_identity_id

\* the edge that closes a cycle of length two with the row
ReverseEdges(row) ==
    {e \in components : /\ e.parent_identity_id = row.child_identity_id
                        /\ e.child_identity_id = row.parent_identity_id}

\* an INSERT that would also refuse the reverse of a stored edge
ComponentInsertFails_on_cycle(row) ==
    \/ ~ck_bundle_no_self_reference(row)
    \/ ~ck_bundle_positive_quantity(row)
    \/ ~fk_bundle_identities(row)
    \/ \E other \in components : uq_bundle_parent_child(row, other)
    \/ ReverseEdges(row) # {}

\* the flushed INSERT raises IntegrityError
ComponentInsertFails(row) ==
    \/ ~ck_bundle_no_self_reference(row)
    \/ ~ck_bundle_positive_quantity(row)
    \/ ~fk_bundle_identities(row)
    \/ \E other \in components : uq_bundle_parent_child(row, other)

\* the flushed UPDATE of a row to written raises IntegrityError
ComponentUpdateFails(written) == ~ck_bundle_positive_quantity(written)

\* BundleComponentRepository.component_exists that finds no row
component_exists_never(parent_identity_id, child_identity_id) == FALSE

\* BundleComponentRepository.component_exists
component_exists(parent_identity_id, child_identity_id) ==
    Cardinality({e \in components : /\ e.parent_identity_id = parent_identity_id
                                     /\ e.child_identity_id = child_identity_id}) > 0

ComponentById(id) == {e \in components : e.id = id}

\* the parent types create_bundle_component lets through, with Base among them
CompositeTypes_with_base == {IdentityType_B, IdentityType_K, IdentityType_BASE}

\* "if parent.type not in [IdentityType.B, IdentityType.K]"
CompositeTypes == {IdentityType_B, IdentityType_K}

\* create_bundle_component's "Check self-reference" left out
is_self_reference_unchecked(parent_identity_id, child_identity_id) == FALSE

\* "if data.parent_identity_id == data.child_identity_id"
is_self_reference(parent_identity_id, child_identity_id) ==
    parent_identity_id = child_identity_id

\* the request bodies of POST /bundles
ParentIdInputs == {1, 2, 3, 4}
ChildIdInputs == {1, 2, 3, 4}
QuantityInputs == {0, 1}
RoleInputs == {"Primary"}

\* BundleComponentBase.quantity_required: int, ge=1
QuantityFieldValid(quantity_required) == quantity_required >= 1

\* the row that bundle_repo.create(data.model_dump()) inserts
create_component_row(d, id) ==
    [id |-> id, parent_identity_id |-> d.parent_identity_id,
     child_identity_id |-> d.child_identity_id,
     quantity_required |-> d.quantity_required, role |-> d.role]

\* create requests that may still draw an id from the sequence
ComponentCreatesInFlight ==
    Cardinality({c \in Clients : pc[c] \in {"bc_lookup", "bc_exists", "bc_insert"}})

\* request arrives; body validated
bc_begin(c) ==
    /\ Idle(c)
    /\ component_seq + ComponentCreatesInFlight < MaxComponentId
    /\ \E parent_identity_id \in ParentIdInputs, child_identity_id \in ChildIdInputs,
          quantity_required \in QuantityInputs, role \in RoleInputs :
        LET d == [op |-> "create_bundle_component",
                  parent_identity_id |-> parent_identity_id,
                  child_identity_id |-> child_identity_id,
                  quantity_required |-> quantity_required, role |-> role]
        IN IF ~QuantityFieldValid(quantity_required)
           THEN Finish(c, HTTP_422_UNPROCESSABLE_ENTITY, d)
           ELSE Goto(c, "bc_lookup", d)
    /\ UNCHANGED <<storeVars, fnVars, histVars, bomVars, listingVars>>

\* parent looked up and its type tested; child looked up; self-reference tested,
\* in the order of the handler
bc_lookup(c) ==
    /\ pc[c] = "bc_lookup"
    /\ LET d == data[c]
       IN IF IdentityById(d.parent_identity_id) = {}
               THEN Finish(c, HTTP_404_NOT_FOUND, d)
          ELSE IF (CHOOSE i \in IdentityById(d.parent_identity_id) : TRUE).type
                      \notin CompositeTypes
               THEN Finish(c, HTTP_400_BAD_REQUEST, d)
          ELSE IF IdentityById(d.child_identity_id) = {}
               THEN Finish(c, HTTP_404_NOT_FOUND, d)
          ELSE IF is_self_reference(d.parent_identity_id, d.child_identity_id)
               THEN Finish(c, HTTP_400_BAD_REQUEST, d)
          ELSE Goto(c, "bc_exists", d)
    /\ UNCHANGED <<storeVars, fnVars, histVars, bomVars, listingVars>>

\* "Check for duplicate component"
bc_exists(c) ==
    /\ pc[c] = "bc_exists"
    /\ IF component_exists(data[c].parent_identity_id, data[c].child_identity_id)
       THEN Finish(c, HTTP_409_CONFLICT, data[c])
       ELSE Goto(c, "bc_insert", data[c])
    /\ UNCHANGED <<storeVars, fnVars, histVars, bomVars, listingVars>>

\* bundle_repo.create(data.model_dump()): the INSERT is flushed and, the handler
\* having nothing left to do, committed.  The flush waits for a session that
\* holds an uncommitted row with the same unique key, so flush and commit are
\* taken as one step on the committed rows.  An IntegrityError is no
\* HTTPException: get_db rolls back and main.global_exception_handler answers 500.
bc_insert(c) ==
    /\ pc[c] = "bc_insert"
    /\ LET row == create_component_row(data[c], component_seq + 1)
       IN /\ component_seq' = component_seq + 1
          /\ IF ComponentInsertFails(row)
             THEN /\ Finish(c, HTTP_500_INTERNAL_SERVER_ERROR, data[c])
                  /\ UNCHANGED components
             ELSE /\ components' = components \cup {row}
                  /\ Finish(c, HTTP_201_CREATED, data[c])
    /\ UNCHANGED <<storeVars, variant_seq, listingVars, fnVars, histVars>>

create_bundle_component(c) ==
    bc_begin(c) \/ bc_lookup(c) \/ bc_exists(c) \/ bc_insert(c)

\* the request bodies of PATCH /bundles/{component_id}: the fields that are set
ComponentIdInputs == 1..MaxComponentId
ComponentUpdateBodyInputs ==
    { {<<"quantity_required", Some(0)>>},
      {<<"quantity_required", Some(2)>>},
      {<<"role", Some("Accessory")>>},
      {<<"parent_identity_id", Some(1)>>} }

\* BundleComponentUpdate: the fields of the schema; others in the body are ignored
BundleComponentUpdate == {"quantity_required", "role"}

\* BundleComponentUpdate.quantity_required: Optional[int], ge=1
ComponentUpdateValid(body) ==
    \A kv \in body :
        (kv[1] = "quantity_required" /\ ~IsNone(kv[2])) => QuantityFieldValid(Val(kv[2]))

\* data.model_dump(exclude_unset=True)
model_dump_component_update(body) == {kv \in body : kv[1] \in BundleComponentUpdate}

\* body validated; repo.get(component_id); 404 when absent; the loaded object is
\* returned as it is when the body sets nothing
ub_begin(c) ==
    /\ Idle(c)
    /\ \E component_id \in ComponentIdInputs, body \in ComponentUpdateBodyInputs :
        LET d == [op |-> "update_bundle_component", component_id |-> component_id]
        IN IF ~ComponentUpdateValid(body)
                THEN Finish(c, HTTP_422_UNPROCESSABLE_ENTITY, d)
           ELSE IF ComponentById(component_id) = {}
                THEN Finish(c, HTTP_404_NOT_FOUND, d)
           ELSE LET db_obj == CHOOSE e \in ComponentById(component_id) : TRUE
                    update_data == model_dump_component_update(body)
                IN IF update_data = {}
                   THEN Finish(c, HTTP_200_OK, d)
                   ELSE Goto(c, "ub_flush",
                             [op |-> "update_bundle_component",
                              component_id |-> component_id,
                              db_obj |-> Loaded(db_obj, update_data),
                              update_data |-> update_data])
    /\ UNCHANGED <<storeVars, fnVars, histVars, bomVars, listingVars>>

\* repo.update(component, update_data): setattr, flush (an UPDATE of the changed
\* columns by primary key), refresh; then get_db commits.  A row deleted in the
\* meantime makes the flush (StaleDataError) or the refresh raise.
ub_flush(c) ==
    /\ pc[c] = "ub_flush"
    /\ LET old == data[c].db_obj
           new == update_obj(old, data[c].update_data)
           d == [op |-> data[c].op, component_id |-> data[c].component_id]
       IN IF ComponentById(data[c].component_id) = {}
          THEN /\ Finish(c, HTTP_500_INTERNAL_SERVER_ERROR, d)
               /\ UNCHANGED components
          ELSE LET row == CHOOSE e \in ComponentById(data[c].component_id) : TRUE
                   written == WriteChanged(row, old, new)
               IN IF ComponentUpdateFails(written)
                  THEN /\ Finish(c, HTTP_500_INTERNAL_SERVER_ERROR, d)
                       /\ UNCHANGED components
                  ELSE /\ components' = (components \ {row}) \cup {written}
                       /\ Finish(c, HTTP_200_OK, d)
    /\ UNCHANGED <<storeVars, variant_seq, component_seq, listingVars, fnVars, histVars>>

update_bundle_component(c) == ub_begin(c) \/ ub_flush(c)

\* DELETE /bundles/{component_id}: repo.delete: get, session.delete, flush; 404
\* when absent
delete_bundle_component(c) ==
    /\ Idle(c)
    /\ \E component_id \in ComponentIdInputs :
        LET d == [op |-> "delete_bundle_component", component_id |-> component_id]
        IN IF ComponentById(component_id) = {}
           THEN /\ Finish(c, HTTP_404_NOT_FOUND, d)
                /\ UNCHANGED components
           ELSE /\ components' = components \ ComponentById(component_id)
                /\ Finish(c, HTTP_204_NO_CONTENT, d)
    /\ UNCHANGED <<storeVars, variant_seq, component_seq, listingVars, fnVars, histVars>>

\* A database that holds family 845 with its Base identity, a Bundle and a Kit,
\* and no bundle edge yet
InitBundle ==
    /\ families = {845}
    /\ identities = {create_identity_row([product_id |-> 845, type |-> IdentityType_BASE,
                                          lci |-> None, physical_class |-> None], 1),
                     create_identity_row([product_id |-> 845, type |-> IdentityType_B,
                                          lci |-> None, physical_class |-> None], 2),
                     create_identity_row([product_id |-> 845, type |-> IdentityType_K,
                                          lci |-> None, physical_class |-> None], 3)}
    /\ identity_seq = 3
    /\ variants = {}
    /\ variant_seq = 0
    /\ items = {}
    /\ item_seq = 0
    /\ components = {}
    /\ component_seq = 0
    /\ listings = {}
    /\ listing_seq = 0
    /\ lci_log = {}
    /\ InitClients
    /\ InitFn

NextBundle ==
    \/ \E c \in Clients : create_bundle_component(c)
    \/ \E c \in Clients : update_bundle_component(c)
    \/ \E c \in Clients : delete_bundle_component(c)

SpecBundle == InitBundle /\ [][NextBundle]_vars

---------------------------------------------------------------------------
(* Inventory items: POST /inventory, /inventory/{item_id}/reserve and /sell  *)
(* (api/routes/inventory.py, repositories/inventory.py)                      *)

ItemIdInputs == 1..MaxItemId
ItemVariantIdInputs == {1, 2}

ItemById(id) == {it \in items : it.id = id}

\* the time datetime.now() returns
Now == "now"

\* POST /inventory: the variant must exist; the item is inserted with the status
\* the body gives (InventoryItemBase.status, default AVAILABLE) and no sold_at
create_inventory_item(c) ==
    /\ Idle(c)
    /\ item_seq < MaxItemId
    /\ \E variant_id \in ItemVariantIdInputs, status \in InventoryStatus :
        LET d == [op |-> "create_inventory_item"]
        IN IF \A v \in variants : v.id # variant_id
           THEN /\ Finish(c, HTTP_404_NOT_FOUND, d)
                /\ UNCHANGED <<items, item_seq>>
           ELSE /\ item_seq' = item_seq + 1
                /\ items' = items \cup {[id |-> item_seq + 1, variant_id |-> variant_id,
                                         status |-> status, sold_at |-> None]}
                /\ Finish(c, HTTP_201_CREATED, d)
    /\ UNCHANGED <<families, identities, identity_seq, variants, pending, fnVars, histVars,
                   bomVars, listingVars>>

\* reserve_item's test with RESERVED let through as well
ReservableStatuses_with_reserved == {"AVAILABLE", "RESERVED"}

\* reserve_item: "item.status == InventoryStatus.AVAILABLE"
ReservableStatuses == {"AVAILABLE"}

\* sell_item's test with only AVAILABLE let through
SellableStatuses_available_only == {"AVAILABLE"}

\* sell_item: "item.status in [InventoryStatus.AVAILABLE, InventoryStatus.RESERVED]"
SellableStatuses == {"AVAILABLE", "RESERVED"}

\* POST /inventory/{item_id}/reserve arrives
rs_begin(c) ==
    /\ Idle(c)
    /\ \E item_id \in ItemIdInputs :
        Goto(c, "rs_get", [op |-> "reserve_item", item_id |-> item_id])
    /\ UNCHANGED <<storeVars, fnVars, histVars, bomVars, listingVars>>

\* reserve_item: item = await self.get(item_id); the status test on what was
\* read; the route answers 400 when the repository returns None
rs_get(c) ==
    /\ pc[c] = "rs_get"
    /\ LET d == data[c]
       IN IF ItemById(d.item_id) = {}
          THEN Finish(c, HTTP_400_BAD_REQUEST, d)
          ELSE LET item == CHOOSE it \in ItemById(d.item_id) : TRUE
               IN IF item.status \in ReservableStatuses
                  THEN Goto(c, "rs_flush", [op |-> "reserve_item", item_id |-> d.item_id,
                                            status |-> item.status])
                  ELSE Finish(c, HTTP_400_BAD_REQUEST, d)
    /\ UNCHANGED <<storeVars, fnVars, histVars, bomVars, listingVars>>

\* item.status = RESERVED; flush (UPDATE ... WHERE id = :id); refresh; commit
rs_flush(c) ==
    /\ pc[c] = "rs_flush"
    /\ items' = {IF it.id = data[c].item_id THEN [it EXCEPT !.status = "RESERVED"] ELSE it
                   : it \in items}
    /\ Finish(c, HTTP_200_OK, data[c])
    /\ UNCHANGED <<families, identities, identity_seq, variants, item_seq, pending, fnVars,
                   histVars, bomVars, listingVars>>

reserve_item(c) == rs_begin(c) \/ rs_get(c) \/ rs_flush(c)

\* POST /inventory/{item_id}/sell arrives
sl_begin(c) ==
    /\ Idle(c)
    /\ \E item_id \in ItemIdInputs :
        Goto(c, "sl_get", [op |-> "sell_item", item_id |-> item_id])
    /\ UNCHANGED <<storeVars, fnVars, histVars, bomVars, listingVars>>

\* sell_item: item = await self.get(item_id); the status test on what was read;
\* the route answers 400 when the repository returns None
sl_get(c) ==
    /\ pc[c] = "sl_get"
    /\ LET d == data[c]
       IN IF ItemById(d.item_id) = {}
          THEN Finish(c, HTTP_400_BAD_REQUEST, d)
          ELSE LET item == CHOOSE it \in ItemById(d.item_id) : TRUE
               IN IF item.status \in SellableStatuses
                  THEN Goto(c, "sl_flush", [op |-> "sell_item", item_id |-> d.item_id,
                                            status |-> item.status])
                  ELSE Finish(c, HTTP_400_BAD_REQUEST, d)
    /\ UNCHANGED <<storeVars, fnVars, histVars, bomVars, listingVars>>

\* item.status = SOLD; item.sold_at = sold_at or datetime.now(); flush; commit
sl_flush(c) ==
    /\ pc[c] = "sl_flush"
    /\ items' = {IF it.id = data[c].item_id
                 THEN [it EXCEPT !.status = "SOLD", !.sold_at = Some(Now)] ELSE it
                   : it \in items}
    /\ Finish(c, HTTP_200_OK, data[c])
    /\ UNCHANGED <<families, identities, identity_seq, variants, item_seq, pending, fnVars,
                   histVars, bomVars, listingVars>>

sell_item(c) == sl_begin(c) \/ sl_get(c) \/ sl_flush(c)

\* InventoryReceiveRequest.variant_sku: the SKU of the plain variant of the Base
\* of family 845, a SKU no variant has, or none
ReceiveSkuInputs == {None, Some(generate_upis_h(845, IdentityType_BASE, None)),
                     Some(<<"9", "9", "9", "9", "9">>)}

\* ProductVariantRepository.get_by_sku
get_by_sku(full_sku) == {v \in variants : v.full_sku = full_sku}

\* POST /inventory/receive: 400 without a variant_sku, 404 when no variant has
\* the SKU; the item is inserted with status AVAILABLE and no sold_at
receive_inventory(c) ==
    /\ Idle(c)
    /\ item_seq < MaxItemId
    /\ \E variant_sku \in ReceiveSkuInputs :
        LET d == [op |-> "receive_inventory"]
        IN IF ~Truthy(variant_sku)
           THEN /\ Finish(c, HTTP_400_BAD_REQUEST, d)
                /\ UNCHANGED <<items, item_seq>>
           ELSE IF get_by_sku(Val(variant_sku)) = {}
           THEN /\ Finish(c, HTTP_404_NOT_FOUND, d)
                /\ UNCHANGED <<items, item_seq>>
           ELSE LET variant == CHOOSE v \in get_by_sku(Val(variant_sku)) : TRUE
                IN /\ item_seq' = item_seq + 1
                   /\ items' = items \cup {[id |-> item_seq + 1, variant_id |-> variant.id,
                                            status |-> "AVAILABLE", sold_at |-> None]}
                   /\ Finish(c, HTTP_200_OK, d)
    /\ UNCHANGED <<families, identities, identity_seq, variants, pending, fnVars, histVars, bomVars,
                   listingVars>>

ItemUpdateBodyInputs ==
    { {},
      {<<"status", Some("AVAILABLE")>>},
      {<<"status", Some("SOLD")>>} }

\* the update schema without the status field
InventoryItemUpdate_without_status ==
    {"serial_number", "location_code", "cost_basis", "notes"}

\* schemas/inventory.py: the fields of InventoryItemUpdate
InventoryItemUpdate ==
    {"serial_number", "status", "location_code", "cost_basis", "notes"}

\* data.model_dump(exclude_unset=True)
model_dump_item_update(body) == {kv \in body : kv[1] \in InventoryItemUpdate}

\* PATCH /inventory/{item_id} arrives
ut_begin(c) ==
    /\ Idle(c)
    /\ \E item_id \in ItemIdInputs, body \in ItemUpdateBodyInputs :
        Goto(c, "ut_get", [op |-> "update_inventory_item", item_id |-> item_id,
                           body |-> body])
    /\ UNCHANGED <<storeVars, fnVars, histVars, bomVars, listingVars>>

\* repo.get(item_id); 404 when absent; the loaded object is returned as it is
\* when update_data is empty.  No test of the status the item has.
ut_get(c) ==
    /\ pc[c] = "ut_get"
    /\ LET d == data[c]
       IN IF ItemById(d.item_id) = {}
          THEN Finish(c, HTTP_404_NOT_FOUND, d)
          ELSE LET db_obj == CHOOSE it \in ItemById(d.item_id) : TRUE
                   update_data == model_dump_item_update(d.body)
               IN IF update_data = {}
                  THEN Finish(c, HTTP_200_OK, d)
                  ELSE Goto(c, "ut_flush",
                            [op |-> "update_inventory_item", item_id |-> d.item_id,
                             db_obj |-> Loaded(db_obj, update_data),
                             update_data |-> update_data])
    /\ UNCHANGED <<storeVars, fnVars, histVars, bomVars, listingVars>>

\* repo.update(item, update_data): setattr, flush (an UPDATE of the changed
\* columns by primary key), refresh; then get_db commits
ut_flush(c) ==
    /\ pc[c] = "ut_flush"
    /\ LET old == data[c].db_obj
           new == update_obj(old, data[c].update_data)
           d == [op |-> data[c].op, item_id |-> data[c].item_id]
       IN IF ItemById(data[c].item_id) = {}
          THEN /\ Finish(c, HTTP_500_INTERNAL_SERVER_ERROR, d)
               /\ UNCHANGED items
          ELSE LET row == CHOOSE it \in ItemById(data[c].item_id) : TRUE
                   written == WriteChanged(row, old, new)
               IN /\ items' = (items \ {row}) \cup {written}
                  /\ Finish(c, HTTP_200_OK, d)
    /\ UNCHANGED <<families, identities, identity_seq, variants, item_seq, pending,
                   fnVars, histVars, bomVars, listingVars>>

update_inventory_item(c) == ut_begin(c) \/ ut_get(c) \/ ut_flush(c)

\* A database that holds family 845, its Base identity and that identity's
\* plain variant, and no inventory yet
InitInventory ==
    /\ families = {845}
    /\ identities = {create_identity_row([product_id |-> 845, type |-> IdentityType_BASE,
                                          lci |-> None, physical_class |-> None], 1)}
    /\ identity_seq = 1
    /\ variants = {create_variant_row([identity_id |-> 1, color_code |-> None,
                                        condition_code |-> None, is_active |-> TRUE],
                                       generate_upis_h(845, IdentityType_BASE, None), 1)}
    /\ items = {}
    /\ item_seq = 0
    /\ variant_seq = 1
    /\ components = {}
    /\ component_seq = 0
    /\ listings = {}
    /\ listing_seq = 0
    /\ lci_log = {}
    /\ InitClients
    /\ InitFn

NextInventory ==
    \/ \E c \in Clients : create_inventory_item(c)
    \/ \E c \in Clients : reserve_item(c)
    \/ \E c \in Clients : sell_item(c)

SpecInventory == InitInventory /\ [][NextInventory]_vars

\* the stock requests of one session, one after the other: every way an item is
\* made or changed
StockClients == {"c1"}

NextStock ==
    \/ \E c \in StockClients : create_inventory_item(c)
    \/ \E c \in StockClients : receive_inventory(c)
    \/ \E c \in StockClients : update_inventory_item(c)
    \/ \E c \in StockClients : reserve_item(c)
    \/ \E c \in StockClients : sell_item(c)

SpecStock == InitInventory /\ [][NextStock]_vars

---------------------------------------------------------------------------
(* Platform listings: POST /listings, PATCH and DELETE /listings/{id},       *)
(* POST /listings/{id}/mark-synced and /mark-error (api/routes/listings.py)  *)

MaxListingId == 2

PlatformSyncStatus == {"PENDING", "SYNCED", "ERROR"}

Platform == {"ZOHO", "AMAZON_US", "AMAZON_CA", "EBAY", "ECWID"}

ListingById(id) == {l \in listings : l.id = id}

\* PlatformListingRepository.get_by_variant_platform
get_by_variant_platform(variant_id, platform) ==
    {l \in listings : l.variant_id = variant_id /\ l.platform = platform}

\* UniqueConstraint("variant_id", "platform")
uq_listing_variant_platform(row, other) ==
    row.variant_id = other.variant_id /\ row.platform = other.platform

\* the INSERT of a listing with no check of its foreign key
fk_listing_variant_unchecked(row) == TRUE

\* ForeignKey("product_variant.id")
fk_listing_variant(row) == \E v \in variants : v.id = row.variant_id

\* the INSERT raises IntegrityError
ListingInsertFails(row) ==
    \/ ~fk_listing_variant(row)
    \/ \E other \in listings : uq_listing_variant_platform(row, other)

ListingVariantIdInputs == {1, 2}
PlatformInputs == {"ZOHO"}
ListingIdInputs == 1..MaxListingId
ExternalRefInputs == {None, Some("B01")}
ErrorMessageInputs == {"timeout"}

\* listing_data = data.model_dump(); listing_data["sync_status"] = PENDING;
\* PlatformListing(**listing_data): the columns not named stay NULL
create_listing_row(d, id) ==
    [id |-> id, variant_id |-> d.variant_id, platform |-> d.platform,
     external_ref_id |-> d.external_ref_id, listing_price |-> d.listing_price,
     sync_status |-> "PENDING", last_synced_at |-> None, sync_error_message |-> None]

\* POST /listings: the variant must exist (404); a listing of the variant on the
\* platform is a conflict (409)
pl_begin(c) ==
    /\ Idle(c)
    /\ listing_seq + Cardinality({k \in Clients : pc[k] = "pl_insert"}) < MaxListingId
    /\ \E variant_id \in ListingVariantIdInputs, platform \in PlatformInputs :
        LET d == [op |-> "create_platform_listing", variant_id |-> variant_id,
                  platform |-> platform, external_ref_id |-> None,
                  listing_price |-> None]
        IN IF VariantById(variant_id) = {}
           THEN Finish(c, HTTP_404_NOT_FOUND, d)
           ELSE IF get_by_variant_platform(variant_id, platform) # {}
                THEN Finish(c, HTTP_409_CONFLICT, d)
                ELSE Goto(c, "pl_insert", d)
    /\ UNCHANGED <<storeVars, fnVars, histVars, bomVars, listingVars>>

\* repo.create(listing_data): INSERT, flush, refresh; then get_db commits.  The
\* sequence value is consumed also when the INSERT fails.
pl_insert(c) ==
    /\ pc[c] = "pl_insert"
    /\ listing_seq' = listing_seq + 1
    /\ LET row == create_listing_row(data[c], listing_seq + 1)
       IN IF ListingInsertFails(row)
          THEN /\ Finish(c, HTTP_500_INTERNAL_SERVER_ERROR, data[c])
               /\ UNCHANGED listings
          ELSE /\ listings' = listings \cup {row}
               /\ Finish(c, HTTP_201_CREATED, data[c])
    /\ UNCHANGED <<storeVars, fnVars, histVars, bomVars>>

create_platform_listing(c) == pl_begin(c) \/ pl_insert(c)

ListingUpdateBodyInputs ==
    { {},
      {<<"external_ref_id", Some("B02")>>},
      {<<"listing_price", Some(5)>>},
      {<<"sync_status", Some("PENDING")>>} }

\* the update schema with sync_status among its fields
PlatformListingUpdate_with_sync_status == {"external_ref_id", "listing_price", "sync_status"}

\* schemas/listings.py: the fields of PlatformListingUpdate
PlatformListingUpdate == {"external_ref_id", "listing_price"}

\* data.model_dump(exclude_unset=True)
model_dump_listing_update(body) == {kv \in body : kv[1] \in PlatformListingUpdate}

\* update_platform_listing's adjustment of update_data: a sync_status of SYNCED
\* brings last_synced_at and a None sync_error_message with it
with_synced_fields(update_data) ==
    IF <<"sync_status", Some("SYNCED")>> \in update_data
    THEN update_data \cup {<<"last_synced_at", Some(Now)>>, <<"sync_error_message", None>>}
    ELSE update_data

\* PATCH /listings/{listing_id}: repo.get; 404 when absent; the loaded object is
\* returned as it is when update_data is empty
ul_begin(c) ==
    /\ Idle(c)
    /\ \E listing_id \in ListingIdInputs, body \in ListingUpdateBodyInputs :
        LET d == [op |-> "update_platform_listing", listing_id |-> listing_id]
        IN IF ListingById(listing_id) = {}
           THEN Finish(c, HTTP_404_NOT_FOUND, d)
           ELSE LET db_obj == CHOOSE l \in ListingById(listing_id) : TRUE
                    update_data == with_synced_fields(model_dump_listing_update(body))
                IN IF update_data = {}
                   THEN Finish(c, HTTP_200_OK, d)
                   ELSE Goto(c, "ul_flush",
                             [op |-> "update_platform_listing", listing_id |-> listing_id,
                              db_obj |-> Loaded(db_obj, update_data),
                              update_data |-> update_data])
    /\ UNCHANGED <<storeVars, fnVars, histVars, bomVars, listingVars>>

\* mark_listing_synced's update_data: external_ref_id joins it when truthy
synced_update_data(external_ref_id) ==
    {<<"sync_status", Some("SYNCED")>>, <<"last_synced_at", Some(Now)>>,
     <<"sync_error_message", None>>}
    \cup (IF ~IsNone(external_ref_id) /\ Val(external_ref_id) # ""
          THEN {<<"external_ref_id", external_ref_id>>} ELSE {})

\* POST /listings/{listing_id}/mark-synced: repo.get; 404 when absent
ms_begin(c) ==
    /\ Idle(c)
    /\ \E listing_id \in ListingIdInputs, external_ref_id \in ExternalRefInputs :
        LET d == [op |-> "mark_listing_synced", listing_id |-> listing_id]
        IN IF ListingById(listing_id) = {}
           THEN Finish(c, HTTP_404_NOT_FOUND, d)
           ELSE LET db_obj == CHOOSE l \in ListingById(listing_id) : TRUE
                    update_data == synced_update_data(external_ref_id)
                IN Goto(c, "ul_flush",
                        [op |-> "mark_listing_synced", listing_id |-> listing_id,
                         db_obj |-> Loaded(db_obj, update_data),
                         update_data |-> update_data])
    /\ UNCHANGED <<storeVars, fnVars, histVars, bomVars, listingVars>>

\* POST /listings/{listing_id}/mark-error: repo.get; 404 when absent
me_begin(c) ==
    /\ Idle(c)
    /\ \E listing_id \in ListingIdInputs, error_message \in ErrorMessageInputs :
        LET d == [op |-> "mark_listing_error", listing_id |-> listing_id]
        IN IF ListingById(listing_id) = {}
           THEN Finish(c, HTTP_404_NOT_FOUND, d)
           ELSE LET db_obj == CHOOSE l \in ListingById(listing_id) : TRUE
                    update_data == {<<"sync_status", Some("ERROR")>>,
                                    <<"sync_error_message", Some(error_message)>>}
                IN Goto(c, "ul_flush",
                        [op |-> "mark_listing_error", listing_id |-> listing_id,
                         db_obj |-> Loaded(db_obj, update_data),
                         update_data |-> update_data])
    /\ UNCHANGED <<storeVars, fnVars, histVars, bomVars, listingVars>>

\* repo.update(listing, update_data): setattr for the values that are not None,
\* flush (an UPDATE of the changed columns by primary key), refresh; then get_db
\* commits.  A row deleted in the meantime makes the flush or the refresh raise.
ul_flush(c) ==
    /\ pc[c] = "ul_flush"
    /\ LET old == data[c].db_obj
           new == update_obj(old, data[c].update_data)
           d == [op |-> data[c].op, listing_id |-> data[c].listing_id]
       IN IF ListingById(data[c].listing_id) = {}
          THEN /\ Finish(c, HTTP_500_INTERNAL_SERVER_ERROR, d)
               /\ UNCHANGED listings
          ELSE LET row == CHOOSE l \in ListingById(data[c].listing_id) : TRUE
                   written == WriteChanged(row, old, new)
               IN /\ listings' = (listings \ {row}) \cup {written}
                  /\ Finish(c, HTTP_200_OK, d)
    /\ UNCHANGED <<storeVars, fnVars, histVars, bomVars, listing_seq>>

update_platform_listing(c) == ul_begin(c) \/ ul_flush(c)

mark_listing_synced(c) == ms_begin(c) \/ ul_flush(c)

mark_listing_error(c) == me_begin(c) \/ ul_flush(c)

\* DELETE /listings/{listing_id}: repo.delete: get, session.delete, flush; 404
\* when absent
delete_platform_listing(c) ==
    /\ Idle(c)
    /\ \E listing_id \in ListingIdInputs :
        LET d == [op |-> "delete_platform_listing", listing_id |-> listing_id]
        IN IF ListingById(listing_id) = {}
           THEN /\ Finish(c, HTTP_404_NOT_FOUND, d)
                /\ UNCHANGED listings
           ELSE /\ listings' = listings \ ListingById(listing_id)
                /\ Finish(c, HTTP_204_NO_CONTENT, d)
    /\ UNCHANGED <<storeVars, fnVars, histVars, bomVars, listing_seq>>

\* A database that holds family 845, its Base identity and that identity's
\* plain variant, and no listing yet
InitListing ==
    /\ InitInventory

NextListing ==
    \/ \E c \in Clients : create_platform_listing(c)
    \/ \E c \in Clients : update_platform_listing(c)
    \/ \E c \in Clients : mark_listing_synced(c)
    \/ \E c \in Clients : mark_listing_error(c)
    \/ \E c \in Clients : delete_platform_listing(c)

SpecListing == InitListing /\ [][NextListing]_vars

---------------------------------------------------------------------------
(* Deletes and their cascades over a database with two families              *)

\* Family 845 holds a Base identity (1) with a variant, an inventory item and a
\* listing, and a Kit (3) that contains the Base; family 846 holds a Bundle (2)
\* with a variant, which contains the Base of family 845 as well
InitCascade ==
    /\ families = {845, 846}
    /\ identities = {create_identity_row([product_id |-> 845, type |-> IdentityType_BASE,
                                          lci |-> None, physical_class |-> None], 1),
                     create_identity_row([product_id |-> 846, type |-> IdentityType_B,
                                          lci |-> None, physical_class |-> None], 2),
                     create_identity_row([product_id |-> 845, type |-> IdentityType_K,
                                          lci |-> None, physical_class |-> None], 3)}
    /\ identity_seq = 3
    /\ variants = {create_variant_row([identity_id |-> 1, color_code |-> None,
                                        condition_code |-> None, is_active |-> TRUE],
                                       generate_upis_h(845, IdentityType_BASE, None), 1),
                   create_variant_row([identity_id |-> 2, color_code |-> None,
                                        condition_code |-> None, is_active |-> TRUE],
                                       generate_upis_h(846, IdentityType_B, None), 2)}
    /\ variant_seq = 2
    /\ items = {[id |-> 1, variant_id |-> 1, status |-> "AVAILABLE", sold_at |-> None]}
    /\ item_seq = 1
    /\ components = {create_component_row([parent_identity_id |-> 2, child_identity_id |-> 1,
                                           quantity_required |-> 1, role |-> "Primary"], 1),
                     create_component_row([parent_identity_id |-> 3, child_identity_id |-> 1,
                                           quantity_required |-> 1, role |-> "Primary"], 2)}
    /\ component_seq = 2
    /\ listings = {create_listing_row([variant_id |-> 1, platform |-> "ZOHO",
                                        external_ref_id |-> None, listing_price |-> None], 1)}
    /\ listing_seq = 1
    /\ lci_log = {}
    /\ InitClients
    /\ InitFn

NextCascade ==
    \/ delete_family
    \/ \E c \in Clients : delete_identity(c)
    \/ \E c \in Clients : delete_variant(c)
    \/ \E c \in Clients : delete_bundle_component(c)
    \/ \E c \in Clients : create_platform_listing(c)
    \/ \E c \in Clients : create_inventory_item(c)

SpecCascade == InitCascade /\ [][NextCascade]_vars

---------------------------------------------------------------------------
(* The pure functions on their own *)

NextFn == EvalGenerateUpisH

SpecFn == Init /\ [][NextFn]_vars

---------------------------------------------------------------------------
(* Properties *)

Chars_00845 == <<"0", "0", "8", "4", "5">>

\* the row client c is about to insert
RowOf(c) == create_identity_row(data[c], identity_seq + 1)

\* C1: the Part identities of one family have pairwise distinct lci values,
\* each an integer in 1..99, in every reachable state.
C1_PartLciUniqueInRange ==
    \A i \in identities :
        i.type = "P" =>
            /\ ~IsNone(i.lci)
            /\ Val(i.lci) \in 1..99
            /\ \A j \in identities :
                  (j.type = "P" /\ j.product_id = i.product_id /\ j.lci = i.lci) => j = i

C1_Witness ==
    \E i, j \in identities :
        /\ i # j
        /\ i.type = "P" /\ j.type = "P"
        /\ i.product_id = j.product_id
        /\ response = [op |-> "create_identity", status |-> HTTP_201_CREATED]

\* C2: no two stored identities have the same generated_upis_h, and every
\* stored generated_upis_h is generate_upis_h of the row's own
\* (product_id, type, lci).
C2_UpisHUniqueAndDerived ==
    /\ \A i, j \in identities : i.generated_upis_h = j.generated_upis_h => i = j
    /\ \A i \in identities :
          i.generated_upis_h = generate_upis_h(i.product_id, i.type, i.lci)

C2_Witness ==
    /\ \E i \in identities : i.type = "P" /\ i.lci = Some(2)
    /\ \E i \in identities : i.type = "P" /\ i.lci = Some(1)

\* C3: a create_identity request whose INSERT loses to a committed row with the
\* same unique key ends with Conflict (409), rolled back in full.
C3_LoserGetsConflict ==
    [][\A c \in Clients :
          (/\ pc[c] = "ci_insert"
           /\ pc'[c] = "idle"
           /\ \E other \in identities : UniqueCollision(RowOf(c), other))
          => (/\ response'.status = HTTP_409_CONFLICT
              /\ identities' = identities
              /\ pending'[c] = {})]_vars

\* C4: the status a reserve or sell writes over is the status it read: no
\* transition is applied to an item whose status another request has changed
\* since this request checked it.
C4_AtomicReadCheckWrite ==
    [][\A c \in Clients :
          (pc[c] \in {"rs_flush", "sl_flush"} /\ pc'[c] = "idle")
          => \E it \in items : it.id = data[c].item_id /\ it.status = data[c].status]_vars

RangeErrorStatus == {HTTP_400_BAD_REQUEST, HTTP_422_UNPROCESSABLE_ENTITY}

\* C6: a create_identity whose resulting lci is greater than 99 fails with a
\* range error and persists nothing.
C6_LciAbove99IsRangeError ==
    [][\A c \in Clients :
          (/\ pc[c] \in {"ci_check", "ci_insert", "ci_commit"}
           /\ ~IsNone(data[c].lci) /\ Val(data[c].lci) > 99
           /\ pc'[c] = "idle")
          => (/\ response'.status \in RangeErrorStatus
              /\ identities' = identities)]_vars

\* C7: a create_identity whose (product_id, type, lci) is that of a stored
\* identity is answered Conflict (409) by the duplicate check, and the stored
\* identities are the same before and after.
C7_DuplicateIsConflict ==
    [][\A c \in Clients :
          (/\ pc[c] = "ci_check"
           /\ pc'[c] # "ci_check"
           /\ \E i \in identities : /\ i.product_id = data[c].product_id
                                    /\ i.type = data[c].type
                                    /\ i.lci = data[c].lci)
          => (/\ pc'[c] = "idle"
              /\ response' = [op |-> "create_identity", status |-> HTTP_409_CONFLICT]
              /\ identities' = identities
              /\ pending' = pending
              /\ identity_seq' = identity_seq)]_vars

C7_Witness ==
    /\ response = [op |-> "create_identity", status |-> HTTP_409_CONFLICT]
    /\ identities # {}

\* C8: a stored identity has an lci iff its type is Part, and create_identity
\* never hands the store a row that breaks this pairing.
C8_LciIffPart ==
    /\ \A i \in identities \cup UNION {pending[c] : c \in Clients} :
          ~IsNone(i.lci) <=> i.type = "P"
    /\ \A c \in Clients :
          pc[c] = "ci_insert" => (~IsNone(data[c].lci) <=> data[c].type = "P")

C8_Witness ==
    /\ \E i \in identities : i.type = "P" /\ ~IsNone(i.lci)
    /\ \E i \in identities : i.type # "P" /\ IsNone(i.lci)

\* C9: as long as an identity is stored, its product_id, type, lci,
\* generated_upis_h and hex_signature are those it was created with; an update
\* changes at most physical_class.
C9_DefiningDataImmutable ==
    [][\A i \in identities : \A j \in identities' :
          i.id = j.id =>
              /\ j.product_id = i.product_id
              /\ j.type = i.type
              /\ j.lci = i.lci
              /\ j.generated_upis_h = i.generated_upis_h
              /\ j.hex_signature = i.hex_signature]_vars

C9_Witness ==
    /\ \E i \in identities : i.physical_class = Some("C")
    /\ response = [op |-> "update_identity", status |-> HTTP_200_OK]

IsDigit(ch) == \E k \in 1..10 : DigitChars[k] = ch
DigitValue(ch) == (CHOOSE k \in 1..10 : DigitChars[k] = ch) - 1

RECURSIVE DigitsValue(_)
\* the number a sequence of digit characters denotes
DigitsValue(ds) ==
    IF ds = <<>> THEN 0
    ELSE 10 * DigitsValue(SubSeq(ds, 1, Len(ds) - 1)) + DigitValue(ds[Len(ds)])

AllDigits(ds) == \A k \in 1..Len(ds) : IsDigit(ds[k])

\* C10: generate_upis_h returns five digits denoting product_id; nothing more
\* for the base type; "-P-" and the lci in decimal without padding for a Part;
\* "-" and the type code for Bundle, Kit and Service.
C10_UpisHFormat ==
    fn_args.fn = "generate_upis_h" =>
        LET out == Val(fn_result)
            type == fn_args.identity_type
            tail == SubSeq(out, 9, Len(out))
        IN /\ Len(out) >= 5
           /\ AllDigits(SubSeq(out, 1, 5))
           /\ DigitsValue(SubSeq(out, 1, 5)) = fn_args.product_id
           /\ type = "Base" => Len(out) = 5
           /\ (type = "P" /\ ~IsNone(fn_args.lci)) =>
                 /\ SubSeq(out, 6, 8) = <<"-", "P", "-">>
                 /\ Len(tail) >= 1
                 /\ AllDigits(tail)
                 /\ tail[1] # "0"
                 /\ DigitsValue(tail) = Val(fn_args.lci)
           /\ type \in {"B", "K", "S"} => (Len(out) = 7 /\ out[6] = "-" /\ out[7] = type)

C10_Witness ==
    /\ fn_args = [fn |-> "generate_upis_h", product_id |-> 845,
                  identity_type |-> "P", lci |-> Some(1)]
    /\ fn_result = Some(Chars_00845 \o <<"-", "P", "-", "1">>)


\* the generated_upis_h of the identity a variant belongs to
UpisHOf(v) == (CHOOSE i \in identities : i.id = v.identity_id).generated_upis_h

Chars_00845_WY_N == <<"0", "0", "8", "4", "5", "-", "W", "Y", "-", "N">>

\* the SKU the composition rule gives: the UPIS-H, then "-" and the color in
\* upper case when a color is given (a non-empty string), then "-" and the
\* condition code when a condition is given
ComposedSku(upis_h, color_code, condition_code) ==
    upis_h
    \o (IF Truthy(color_code)
        THEN <<"-">> \o [i \in 1..Len(Val(color_code)) |-> UpperChar(Val(color_code)[i])]
        ELSE <<>>)
    \o (IF IsNone(condition_code) THEN <<>> ELSE <<"-", Val(condition_code)>>)

\* C11: every variant that create_variant stores has full_sku equal to its
\* identity's generated_upis_h, followed by "-" and the upper-cased color code
\* when a color is present, followed by "-" and the condition code when a
\* condition is present; the Base identity of family 845 with color wy and
\* condition N gets 00845-WY-N.
C11_FullSkuComposition ==
    [][\A v \in variants' :
          (\A w \in variants : w.id # v.id) =>
             /\ v.full_sku = ComposedSku(UpisHOf(v), v.color_code, v.condition_code)
             /\ (/\ UpisHOf(v) = Chars_00845
                 /\ v.color_code = Some(Color_wy)
                 /\ v.condition_code = Some("N")) => v.full_sku = Chars_00845_WY_N]_vars

C11_Witness ==
    /\ response = [op |-> "create_variant", status |-> HTTP_201_CREATED]
    /\ \E v \in variants :
          /\ v.id = variant_seq
          /\ v.color_code = Some(Color_wy)
          /\ v.condition_code = Some("N")
          /\ v.full_sku = Chars_00845_WY_N

\* C12: no two stored variants (active or inactive) of the same identity have
\* the same (color_code, condition_code) pair, absent values counting as equal,
\* in every reachable state.
C12_VariantPairUnique ==
    \A v, w \in variants :
        (v # w /\ v.identity_id = w.identity_id) =>
            ~(v.color_code = w.color_code /\ v.condition_code = w.condition_code)

\* a stored variant of the request's identity has the request's pair
DuplicateStored(d) ==
    \E v \in variants :
        /\ v.identity_id = d.identity_id
        /\ v.color_code = d.color_code
        /\ v.condition_code = d.condition_code

\* C13: when create_variant makes its duplicate check while the identity has a
\* variant, active or deactivated, with the request's (color_code,
\* condition_code) pair, the request fails with 409 Conflict and stores nothing.
C13_DuplicateVariantIsConflict ==
    [][\A c \in Clients :
          (pc[c] = "cv_check" /\ pc'[c] # "cv_check" /\ DuplicateStored(data[c])) =>
             /\ pc'[c] = "idle"
             /\ response' = [op |-> "create_variant", status |-> HTTP_409_CONFLICT]
             /\ variants' = variants
             /\ variant_seq' = variant_seq]_vars

\* C14: a variant's full_sku never changes after creation: whatever
\* update_variant and deactivate_variant do to a stored variant, its full_sku
\* stays as it was.
C14_FullSkuImmutable ==
    [][\A v \in variants : \A w \in variants' :
          w.id = v.id => w.full_sku = v.full_sku]_vars

\* a deactivated variant whose color was changed after creation
C14_Witness ==
    \E v \in variants :
        /\ ~v.is_active
        /\ v.full_sku # ComposedSku(UpisHOf(v), v.color_code, v.condition_code)

\* C15: every stored bundle edge has a parent different from its child, a parent
\* identity of type Bundle or Kit and a quantity_required of at least 1, and no
\* two edges have the same (parent, child) pair, in every reachable state.
C15_BundleEdgeInvariants ==
    /\ \A e \in components :
          /\ e.parent_identity_id # e.child_identity_id
          /\ \E i \in identities : /\ i.id = e.parent_identity_id
                                   /\ i.type \in {"B", "K"}
          /\ e.quantity_required >= 1
    /\ \A e, f \in components :
          (/\ e.parent_identity_id = f.parent_identity_id
           /\ e.child_identity_id = f.child_identity_id) => e = f

C15_Witness ==
    /\ Cardinality(components) = 2
    /\ \E e \in components : e.quantity_required = 2 /\ e.role = "Accessory"
    /\ \E e \in components :
          (CHOOSE i \in identities : i.id = e.parent_identity_id).type = "K"

\* C16: a create_bundle_component whose parent and child are the same existing
\* identity, of whatever type, is answered 400 (InvalidArgument) and adds no
\* edge.
C16_SelfReferenceIsInvalid ==
    [][\A c \in Clients :
          (/\ pc[c] = "bc_lookup"
           /\ pc'[c] # "bc_lookup"
           /\ data[c].parent_identity_id = data[c].child_identity_id
           /\ \E i \in identities : i.id = data[c].parent_identity_id)
          => (/\ pc'[c] = "idle"
              /\ response' = [op |-> "create_bundle_component",
                              status |-> HTTP_400_BAD_REQUEST]
              /\ components' = components
              /\ component_seq' = component_seq)]_vars

\* a request for an edge from a Bundle to itself has passed validation and its
\* lookups are due
C16_Witness ==
    \E c \in Clients :
        /\ pc[c] = "bc_lookup"
        /\ data[c].parent_identity_id = data[c].child_identity_id
        /\ \E i \in identities : i.id = data[c].parent_identity_id /\ i.type = "B"

\* C17: a create_bundle_component whose parent or child identity does not exist
\* is answered 404 (NotFound), also when the existing parent is no Bundle or
\* Kit, and persists no edge.
C17_MissingIdentityIsNotFound ==
    [][\A c \in Clients :
          (/\ pc[c] = "bc_lookup"
           /\ pc'[c] # "bc_lookup"
           /\ \/ \A i \in identities : i.id # data[c].parent_identity_id
              \/ \A i \in identities : i.id # data[c].child_identity_id)
          => (/\ pc'[c] = "idle"
              /\ response' = [op |-> "create_bundle_component",
                              status |-> HTTP_404_NOT_FOUND]
              /\ components' = components)]_vars

\* C18: a create_bundle_component for a (parent, child) pair that has an edge is
\* answered 409 (Conflict) by the duplicate check, and the edges, the existing
\* one with its quantity and role among them, are the same before and after.
C18_DuplicateEdgeIsConflict ==
    [][\A c \in Clients :
          (/\ pc[c] = "bc_exists"
           /\ pc'[c] # "bc_exists"
           /\ \E e \in components :
                 /\ e.parent_identity_id = data[c].parent_identity_id
                 /\ e.child_identity_id = data[c].child_identity_id)
          => (/\ pc'[c] = "idle"
              /\ response' = [op |-> "create_bundle_component",
                              status |-> HTTP_409_CONFLICT]
              /\ components' = components
              /\ component_seq' = component_seq)]_vars

C18_Witness ==
    /\ response = [op |-> "create_bundle_component", status |-> HTTP_409_CONFLICT]
    /\ components # {}

\* the stored item a reserve or sell request names
ItemOf(c) == CHOOSE it \in items : it.id = data[c].item_id

\* the items other than the one client c's request names are left as they are
OtherItemsUnchanged(c) ==
    {it \in items' : it.id # data[c].item_id} = {it \in items : it.id # data[c].item_id}

\* C19: sell of a stored item goes on to its write exactly when the status it
\* reads is AVAILABLE or RESERVED, and the write sets status SOLD with a
\* non-null sold_at and is answered 200; on any other status (SOLD, RMA,
\* DAMAGED) the request is answered 400 and status and sold_at stay as they are.
C19_SellTransition ==
    [][\A c \in Clients :
          /\ (/\ pc[c] = "sl_get" /\ pc'[c] # "sl_get"
              /\ \E it \in items : it.id = data[c].item_id)
             => IF ItemOf(c).status \in {"AVAILABLE", "RESERVED"}
                THEN pc'[c] = "sl_flush" /\ items' = items
                ELSE /\ pc'[c] = "idle"
                     /\ response' = [op |-> "sell_item", status |-> HTTP_400_BAD_REQUEST]
                     /\ items' = items
          /\ (pc[c] = "sl_flush" /\ pc'[c] # "sl_flush")
             => /\ pc'[c] = "idle"
                /\ response' = [op |-> "sell_item", status |-> HTTP_200_OK]
                /\ \E it \in items' : /\ it.id = data[c].item_id
                                       /\ it.status = "SOLD"
                                       /\ ~IsNone(it.sold_at)
                /\ OtherItemsUnchanged(c)]_vars

\* every item has been sold by a sell, and the last request, another sell, was
\* turned down
C19_Witness ==
    /\ response = [op |-> "sell_item", status |-> HTTP_400_BAD_REQUEST]
    /\ Cardinality(items) = MaxItemId
    /\ \A it \in items : it.status = "SOLD" /\ ~IsNone(it.sold_at)

\* C20: reserve of a stored item goes on to its write exactly when the status it
\* reads is AVAILABLE, and the write sets status RESERVED and is answered 200;
\* on any other status (RESERVED, SOLD, RMA, DAMAGED) the request is answered
\* 400 and the item stays as it is.
C20_ReserveTransition ==
    [][\A c \in Clients :
          /\ (/\ pc[c] = "rs_get" /\ pc'[c] # "rs_get"
              /\ \E it \in items : it.id = data[c].item_id)
             => IF ItemOf(c).status = "AVAILABLE"
                THEN pc'[c] = "rs_flush" /\ items' = items
                ELSE /\ pc'[c] = "idle"
                     /\ response' = [op |-> "reserve_item", status |-> HTTP_400_BAD_REQUEST]
                     /\ items' = items
          /\ (pc[c] = "rs_flush" /\ pc'[c] # "rs_flush")
             => /\ pc'[c] = "idle"
                /\ response' = [op |-> "reserve_item", status |-> HTTP_200_OK]
                /\ \E it \in items' : /\ it.id = data[c].item_id
                                       /\ it.status = "RESERVED"
                /\ \A it \in items' : \E old \in items :
                      /\ old.id = it.id
                      /\ old.variant_id = it.variant_id
                      /\ old.sold_at = it.sold_at
                /\ OtherItemsUnchanged(c)]_vars

\* the only item ever stored is RESERVED, and the last request, a reserve, was
\* answered 200
C20_Witness ==
    /\ response = [op |-> "reserve_item", status |-> HTTP_200_OK]
    /\ item_seq = 1
    /\ \A c \in Clients : pc[c] = "idle"
    /\ \E it \in items : it.status = "RESERVED"

\* C21: a mark_listing_synced that is answered 200, also on a listing that
\* mark_listing_error put in ERROR with a message, leaves the listing with
\* sync_status SYNCED, no sync_error_message and a last_synced_at.
C21_MarkSyncedClearsError ==
    [][\A c \in Clients :
          ( /\ pc[c] = "ul_flush"
            /\ data[c].op = "mark_listing_synced"
            /\ pc'[c] = "idle"
            /\ response' = [op |-> "mark_listing_synced", status |-> HTTP_200_OK] )
          => \A l \in listings' :
                l.id = data[c].listing_id
                => /\ l.sync_status = "SYNCED"
                   /\ IsNone(l.sync_error_message)
                   /\ ~IsNone(l.last_synced_at)]_vars

\* the listing a step wrote, as it was before the step
ListingBefore(l) == {k \in listings : k.id = l.id}

\* the session whose flush of the operation op on listing l this step is
FlushOf(op, l) ==
    \E c \in Clients :
        /\ pc[c] = "ul_flush" /\ pc'[c] = "idle"
        /\ data[c].op = op
        /\ data[c].listing_id = l.id

\* C22: a listing is stored with sync_status PENDING; a step changes the
\* sync_status of a stored listing only as the flush of a mark_listing_synced
\* (to SYNCED) or of a mark_listing_error (to ERROR), never as part of an
\* update_platform_listing, and never to PENDING.
C22_SyncStatusLifecycle ==
    [][\A l \in listings' :
          /\ ListingBefore(l) = {} => l.sync_status = "PENDING"
          /\ \A k \in ListingBefore(l) :
                k.sync_status # l.sync_status
                => /\ l.sync_status # "PENDING"
                   /\ ~FlushOf("update_platform_listing", l)
                   /\ \/ l.sync_status = "SYNCED" /\ FlushOf("mark_listing_synced", l)
                      \/ l.sync_status = "ERROR" /\ FlushOf("mark_listing_error", l)]_vars

\* a listing that was synced and was updated since (its external_ref_id is the
\* one of a PATCH) without leaving SYNCED
C22_Witness ==
    \E l \in listings :
        /\ l.sync_status = "SYNCED"
        /\ ~IsNone(l.last_synced_at)
        /\ l.external_ref_id = Some("B02")

\* C23: a delete_identity of an identity that exists is answered 204 and leaves
\* neither the identity nor a variant of it nor a bundle edge that has it as
\* parent or as child, also when the edge belongs to a bundle of another family.
C23_DeleteIdentityCascades ==
    [][\A c \in Clients :
          (pc[c] = "di_flush" /\ pc'[c] = "idle")
          => /\ response' = [op |-> "delete_identity", status |-> HTTP_204_NO_CONTENT]
             /\ \A i \in identities' : i.id # data[c].identity_id
             /\ \A v \in variants' : v.identity_id # data[c].identity_id
             /\ \A e \in components' :
                   /\ e.parent_identity_id # data[c].identity_id
                   /\ e.child_identity_id # data[c].identity_id]_vars

\* every row references rows that exist
NoOrphans ==
    /\ \A i \in identities : i.product_id \in families
    /\ \A v \in variants : \E i \in identities : i.id = v.identity_id
    /\ \A e \in components :
          /\ \E i \in identities : i.id = e.parent_identity_id
          /\ \E i \in identities : i.id = e.child_identity_id
    /\ \A l \in listings : \E v \in variants : v.id = l.variant_id
    /\ \A it \in items : \E v \in variants : v.id = it.variant_id

\* the step that deletes a family leaves nothing of it
FamilyDeleteIsTotal ==
    \A product_id \in families \ families' :
        LET gone_i == {i \in identities : i.product_id = product_id}
            gone_v == {v \in variants : \E i \in gone_i : v.identity_id = i.id}
        IN /\ identities' \cap gone_i = {}
           /\ variants' \cap gone_v = {}
           /\ \A e \in components' : \A i \in gone_i :
                 e.parent_identity_id # i.id /\ e.child_identity_id # i.id
           /\ \A l \in listings' : \A v \in gone_v : l.variant_id # v.id
           /\ \A it \in items' : \A v \in gone_v : it.variant_id # v.id

C25_MissingFamilyIsNotFound ==
    [][845 \notin families
       => /\ \A c \in Clients :
                pc[c] = "idle"
                => pc'[c] \notin {"ci_next_lci", "ci_check", "ci_insert", "ci_commit"}
          /\ (pc' = pc /\ response' # response /\ response'.op = "create_identity")
             => /\ response'.status \in {HTTP_404_NOT_FOUND,
                                         HTTP_422_UNPROCESSABLE_ENTITY}
                /\ identities' = identities
                /\ identity_seq' = identity_seq
                /\ pending' = pending]_vars

\* a create_identity was answered 404 over a database with no family, and no
\* identity was ever inserted
C25_Witness ==
    /\ response = [op |-> "create_identity", status |-> HTTP_404_NOT_FOUND]
    /\ families = {}
    /\ identity_seq = 0

\* C26: create_bundle_component detects no cycle: the insert of an edge A -> B
\* between two stored identities, with no stored edge of the same pair, is
\* answered 201 and stores the edge also when the edge B -> A is stored, so the
\* cycle A -> B -> A is reachable.
C26_NoCycleDetection ==
    [][\A c \in Clients :
          ( /\ pc[c] = "bc_insert"
            /\ pc'[c] = "idle"
            /\ ReverseEdges(data[c]) # {}
            /\ ~component_exists(data[c].parent_identity_id, data[c].child_identity_id) )
          => /\ response' = [op |-> "create_bundle_component", status |-> HTTP_201_CREATED]
             /\ \E e \in components' :
                   /\ e.parent_identity_id = data[c].parent_identity_id
                   /\ e.child_identity_id = data[c].child_identity_id
                   /\ e \notin components]_vars

\* Bundle 2 contains Kit 3 and Kit 3 contains Bundle 2
C26_Witness ==
    \E e \in components, f \in components :
        /\ e.parent_identity_id = 2 /\ e.child_identity_id = 3
        /\ f.parent_identity_id = 3 /\ f.child_identity_id = 2
        /\ \A i \in identities : i.id \in {2, 3} => i.type \in CompositeTypes

\* C27: update_inventory_item consults no transition table: whatever status
\* the stored item has, a PATCH that names a status is not refused, and its
\* flush is answered 200 and leaves the item with the status named (when that
\* differs from the status the request read); so an item that was sold is
\* AVAILABLE again and can be reserved or sold again.
C27_UpdateAcceptsAnyStatus ==
    [][\A c \in StockClients :
          /\ ( /\ pc[c] = "ut_get"
               /\ ItemById(data[c].item_id) # {}
               /\ \E kv \in data[c].body : kv[1] = "status" )
             => /\ pc'[c] = "ut_flush"
                /\ data'[c].update_data = data[c].body
          /\ ( /\ pc[c] = "ut_flush"
               /\ ItemById(data[c].item_id) # {} )
             => /\ response' = [op |-> "update_inventory_item", status |-> HTTP_200_OK]
                /\ \A kv \in data[c].update_data : \A it \in items' :
                      (/\ kv[1] = "status"
                       /\ it.id = data[c].item_id
                       /\ data[c].db_obj.status # Val(kv[2]))
                      => it.status = Val(kv[2])]_vars

\* an item that was sold, set back to AVAILABLE by a PATCH, and reserved again
C27_Witness ==
    \E it \in items : it.status = "RESERVED" /\ ~IsNone(it.sold_at)

\* C30: in every reachable state an inventory item whose status is SOLD has a
\* sold_at, however it was created, received, updated, reserved and sold.
C30_SoldHasSoldAt ==
    \A it \in items : it.status = "SOLD" => ~IsNone(it.sold_at)

\* the row the create_variant of session c is about to insert
NewVariantRow(c) ==
    create_variant_row(data[c],
                       (CHOOSE i \in identities : i.id = data[c].identity_id).generated_upis_h,
                       variant_seq + 1)

\* C28: a create_variant that has passed the duplicate check computes a
\* full_sku that no stored variant with another (identity, color, condition)
\* has: the composition is injective over the valid inputs (the stored variants
\* looked at are those whose full_sku is the composition of their own fields).
C28_SkuCompositionInjective ==
    \A c \in VariantClients :
        (pc[c] = "cv_insert" /\ IdentityById(data[c].identity_id) # {})
        => \A v \in variants :
              ( /\ v.full_sku = ComposedSku(UpisHOf(v), v.color_code, v.condition_code)
                /\ <<v.identity_id, v.color_code, v.condition_code>>
                      # <<data[c].identity_id, data[c].color_code, data[c].condition_code>> )
              => v.full_sku # NewVariantRow(c).full_sku

\* C29: an LCI that a Part of a family was stored with is never given to a
\* Part created later in the family, also when the first Part is deleted: no
\* Part row about to be committed has an LCI that the family's history holds.
C29_LciNeverReused ==
    \A c \in Clients : \A row \in pending[c] :
        row.type = "P" => <<row.product_id, Val(row.lci)>> \notin lci_log
=============================================================================
